---------------------------- MODULE Spec2Model ----------------------------
(***************************************************************************)
(* A model of pycasperglow: the protobuf-like wire codec (protocol.py),   *)
(* the state-notification decoder and the command exchange of the         *)
(* CasperGlow client (device.py).                                         *)
(*                                                                         *)
(* Conventions.  A Python bytes value is a sequence of 0..255.  An        *)
(* Optional value is None (the empty sequence) or Some(v) (a one-element  *)
(* sequence).  A decoded protobuf value is a record tagged "int" or       *)
(* "bytes" (Python's isinstance test reads the tag).  Offsets into a      *)
(* buffer are 0-based as in the source; data[pos + 1] is Python's         *)
(* data[pos].                                                              *)
(***************************************************************************)
EXTENDS Integers, Sequences, FiniteSets, TLC

None == <<>>
Some(v) == <<v>>

(***************************************************************************)
(* const.py                                                                *)
(***************************************************************************)
RECONNECT_PACKET == <<8, 1, 34, 2, 106, 0>>
READY_MARKER == <<114, 2, 8, 0>>
ACTION_BODY_ON == <<26, 2, 8, 2>>
ACTION_BODY_OFF == <<26, 2, 8, 4>>
ACTION_BODY_PAUSE == <<26, 2, 8, 5>>
ACTION_BODY_RESUME == <<26, 2, 8, 6>>
DIMMING_TIME_MINUTES == <<15, 30, 45, 60, 90>>
\* const.py of this snapshot does not carry these two names, which device.py
\* imports: the levels are those of set_brightness's docstring, the query body
\* is an opaque fixed byte string distinct from the other action bodies.
BRIGHTNESS_LEVELS == <<60, 70, 80, 90, 100>>
QUERY_STATE_BODY == <<26, 2, 8, 7>>

STATE_RESPONSE_FIELD == 19

InTuple(x, tup) == \E i \in 1..Len(tup) : tup[i] = x

(***************************************************************************)
(* protocol.py: varint codec                                               *)
(***************************************************************************)
Truncated == [ok |-> FALSE, value |-> 0, pos |-> 0]

\* The while loop of parse_varint; mult is 2^shift.
RECURSIVE parse_varint_loop(_, _, _, _)
parse_varint_loop(data, pos, result, mult) ==
    IF pos < Len(data)
    THEN LET byte == data[pos + 1]
             r == result + (byte % 128) * mult
         IN  IF byte < 128
             THEN [ok |-> TRUE, value |-> r, pos |-> pos + 1]
             ELSE parse_varint_loop(data, pos + 1, r, mult * 128)
    ELSE Truncated

\* parse_varint that reads from the first byte whatever start is.
parse_varint_from_zero(data, start) == parse_varint_loop(data, 0, 0, 1)

\* parse_varint that decodes 0 where no byte is left to read.
parse_varint_empty_zero(data, start) ==
    IF start >= Len(data)
    THEN [ok |-> TRUE, value |-> 0, pos |-> start]
    ELSE parse_varint_loop(data, start, 0, 1)

parse_varint(data, start) == parse_varint_loop(data, start, 0, 1)

RECURSIVE encode_varint_loop(_)
encode_varint_loop(value) ==
    IF value > 127
    THEN <<(value % 128) + 128>> \o encode_varint_loop(value \div 128)
    ELSE <<value>>

\* ok is FALSE where the source raises ValueError.
encode_varint(value) ==
    IF value < 0
    THEN [ok |-> FALSE, bytes |-> <<>>]
    ELSE [ok |-> TRUE, bytes |-> encode_varint_loop(value)]

(***************************************************************************)
(* protocol.py: notification classifier                                    *)
(***************************************************************************)
Slice(data, from, to) ==
    [i \in 1..(to - from) |-> data[from + i]]

\* READY_MARKER in payload: a contiguous-substring search.
payload_contains_ready_marker(payload) ==
    \E i \in 0..(Len(payload) - Len(READY_MARKER)) :
        Slice(payload, i, i + Len(READY_MARKER)) = READY_MARKER

RECURSIVE extract_token_loop(_, _)
\* One field of the loop that reads on inside a length-delimited field.
extract_token_field_nested(payload, field_number, wire_type, val) ==
    IF wire_type = 0
    THEN IF ~val.ok THEN None
         ELSE IF field_number = 1 THEN Some(val.value)
         ELSE extract_token_loop(payload, val.pos)
    ELSE IF wire_type = 2
    THEN IF ~val.ok THEN None
         ELSE extract_token_loop(payload, val.pos)
    ELSE None

\* A loop that gives up when field 1 arrives as a length-delimited field.
extract_token_field_strict(payload, field_number, wire_type, val) ==
    IF wire_type = 0
    THEN IF ~val.ok THEN None
         ELSE IF field_number = 1 THEN Some(val.value)
         ELSE extract_token_loop(payload, val.pos)
    ELSE IF wire_type = 2
    THEN IF ~val.ok \/ field_number = 1 THEN None
         ELSE extract_token_loop(payload, val.pos + val.value)
    ELSE None

\* One field of the loop of extract_token_from_notify, its tag split and its
\* value (or length) varint read.
extract_token_field(payload, field_number, wire_type, val) ==
    IF wire_type = 0
    THEN IF ~val.ok THEN None
         ELSE IF field_number = 1 THEN Some(val.value)
         ELSE extract_token_loop(payload, val.pos)
    ELSE IF wire_type = 2
    THEN IF ~val.ok THEN None
         ELSE extract_token_loop(payload, val.pos + val.value)
    ELSE None

\* The loop body from the tag varint that was read.
extract_token_tag(payload, tag) ==
    IF ~tag.ok THEN None
    ELSE extract_token_field(payload, tag.value \div 8, tag.value % 8,
                             parse_varint(payload, tag.pos))

extract_token_loop(payload, pos) ==
    IF pos < Len(payload)
    THEN extract_token_tag(payload, parse_varint(payload, pos))
    ELSE None

extract_token_from_notify(payload) == extract_token_loop(payload, 0)

(***************************************************************************)
(* protocol.py: field parser                                               *)
(***************************************************************************)
IntVal(v) == [t |-> "int", v |-> v, b |-> <<>>]
BytesVal(b) == [t |-> "bytes", v |-> 0, b |-> b]

NoFields == [k \in {} |-> <<>>]

\* fields.setdefault(field_number, []).append(value)
setdefault_append(fields, k, val) ==
    IF k \in DOMAIN fields
    THEN [fields EXCEPT ![k] = Append(@, val)]
    ELSE [j \in DOMAIN fields \cup {k} |->
             IF j = k THEN <<val>> ELSE fields[j]]

\* dict.get: None when the key is absent.
Get(fields, k) == IF k \in DOMAIN fields THEN Some(fields[k]) ELSE None

RECURSIVE parse_fields_loop(_, _, _)
\* One field of the loop without the test of the length against the buffer:
\* the slice gives the bytes that are left.
parse_fields_field_unchecked(data, fields, field_number, wire_type, val) ==
    IF wire_type = 0
    THEN IF ~val.ok THEN fields
         ELSE parse_fields_loop(data, val.pos,
                  setdefault_append(fields, field_number, IntVal(val.value)))
    ELSE IF wire_type = 2
    THEN IF ~val.ok THEN fields
         ELSE parse_fields_loop(data, val.pos + val.value,
                  setdefault_append(fields, field_number,
                      BytesVal(Slice(data, val.pos,
                                     IF val.pos + val.value > Len(data)
                                     THEN Len(data)
                                     ELSE val.pos + val.value))))
    ELSE fields

\* One field of the loop of parse_protobuf_fields, its tag split and its
\* value (or length) varint read.
parse_fields_field(data, fields, field_number, wire_type, val) ==
    IF wire_type = 0
    THEN IF ~val.ok THEN fields
         ELSE parse_fields_loop(data, val.pos,
                  setdefault_append(fields, field_number, IntVal(val.value)))
    ELSE IF wire_type = 2
    THEN IF ~val.ok THEN fields
         ELSE IF val.pos + val.value > Len(data) THEN fields
         ELSE parse_fields_loop(data, val.pos + val.value,
                  setdefault_append(fields, field_number,
                      BytesVal(Slice(data, val.pos, val.pos + val.value))))
    ELSE fields

\* The loop body without its first except clause: on a truncated tag the
\* ValueError leaves the function and no field map comes back.
parse_fields_tag_uncaught(data, fields, tag) ==
    IF ~tag.ok THEN [k \in {-1} |-> <<>>]
    ELSE parse_fields_field(data, fields, tag.value \div 8, tag.value % 8,
                            parse_varint(data, tag.pos))

\* The loop body from the tag varint that was read.
parse_fields_tag(data, fields, tag) ==
    IF ~tag.ok THEN fields
    ELSE parse_fields_field(data, fields, tag.value \div 8, tag.value % 8,
                            parse_varint(data, tag.pos))

parse_fields_loop(data, pos, fields) ==
    IF pos < Len(data)
    THEN parse_fields_tag(data, fields, parse_varint(data, pos))
    ELSE fields

parse_protobuf_fields(data) == parse_fields_loop(data, 0, NoFields)

Last(s) == s[Len(s)]

\* The first value of field k in place of the last.
FirstBytes(fields, k) ==
    IF k \notin DOMAIN fields THEN None
    ELSE IF fields[k][1].t # "bytes" THEN None
    ELSE Some(fields[k][1].b)

\* The last value of field k when it is bytes: "values = fields.get(k); if
\* not values: return None; body = values[-1]; if not isinstance(body,
\* bytes): return None".
LastBytes(fields, k) ==
    IF k \notin DOMAIN fields THEN None
    ELSE IF Last(fields[k]).t # "bytes" THEN None
    ELSE Some(Last(fields[k]).b)

\* parse_state_response from the field-19 body (None: it returned before).
parse_state_body(body) ==
    IF body = None THEN None ELSE Some(parse_protobuf_fields(body[1]))

\* parse_state_response from the field-4 body (None: it returned before).
parse_field4_body(field4_body) ==
    IF field4_body = None THEN None
    ELSE parse_state_body(LastBytes(parse_protobuf_fields(field4_body[1]),
                                    STATE_RESPONSE_FIELD))

\* None, or Some(field map of the field-19 body).
parse_state_response(notification) ==
    parse_field4_body(LastBytes(parse_protobuf_fields(notification), 4))

(***************************************************************************)
(* protocol.py: command packet builder                                     *)
(***************************************************************************)
\* build_action_packet writing the length of the body as one byte.
build_action_packet_byte_len(token, action_body) ==
    <<8, 1>> \o <<16>> \o encode_varint(token).bytes
        \o <<34>> \o <<Len(action_body) % 256>> \o action_body

build_action_packet(token, action_body) ==
    <<8, 1>> \o <<16>> \o encode_varint(token).bytes
        \o <<34>> \o encode_varint(Len(action_body)).bytes \o action_body

FIELD_18_TAG == encode_varint(18 * 8 + 2).bytes

\* build_brightness_body with the inner length of the captured packets.
build_brightness_body_len_6(brightness_pct, dimming_time_ms) ==
    FIELD_18_TAG \o <<6>> \o <<16>> \o encode_varint(brightness_pct).bytes
        \o <<24>> \o encode_varint(dimming_time_ms).bytes

build_brightness_body(brightness_pct, dimming_time_ms) ==
    LET inner == <<16>> \o encode_varint(brightness_pct).bytes
                    \o <<24>> \o encode_varint(dimming_time_ms).bytes
    IN  FIELD_18_TAG \o encode_varint(Len(inner)).bytes \o inner

(***************************************************************************)
(* device.py: GlowState and the state-notification decoder                 *)
(***************************************************************************)
GlowState ==
    [is_on |-> None, brightness_level |-> None, battery_level |-> None,
     dimming_time_minutes |-> None,
     configured_dimming_time_minutes |-> None,
     is_paused |-> None, raw_state |-> None]

\* _BATTERY_PERCENTAGE = {3: 25, 4: 50, 5: 75, 6: 100}
BATTERY_PERCENTAGE == [raw \in {3, 4, 5, 6} |-> 25 * (raw - 2)]

\* BatteryLevel.percentage of the member with value level.
percentage(level) == BATTERY_PERCENTAGE[level]

\* BatteryLevel.from_raw: the member with that value, or None.
from_raw(value) == IF value \in {3, 4, 5, 6} THEN Some(value) ELSE None

\* "sf is not None and isinstance(sf[0], <type>)" for sf = fields.get(k)
FirstIs(fields, k, type) == k \in DOMAIN fields /\ fields[k][1].t = type

\* Sub-field 1 resetting the power of a notification that does not carry it.
sub_field_1_reset(s, f) ==
    IF FirstIs(f, 1, "int")
    THEN [s EXCEPT !.is_on = Some(f[1][1].v = 1),
                   !.is_paused = IF f[1][1].v = 1 THEN @ ELSE Some(FALSE)]
    ELSE [s EXCEPT !.is_on = None]

\* Sub-field 1: power/mode indicator.
sub_field_1(s, f) ==
    IF FirstIs(f, 1, "int")
    THEN [s EXCEPT !.is_on = Some(f[1][1].v = 1),
                   !.is_paused = IF f[1][1].v = 1 THEN @ ELSE Some(FALSE)]
    ELSE s

\* Sub-field 2: remaining dimming time in milliseconds.
sub_field_2(s, f) ==
    IF FirstIs(f, 2, "int")
    THEN [s EXCEPT !.dimming_time_minutes = Some(f[2][1].v \div 60000)]
    ELSE s

\* Mutant of sub_field_3: a zero report overwrites the configured duration.
sub_field_3_overwrite(s, f) ==
    IF FirstIs(f, 3, "int")
    THEN [s EXCEPT !.configured_dimming_time_minutes =
                       Some(f[3][1].v \div 60000)]
    ELSE s

\* Sub-field 3: configured total dimming time in milliseconds.
sub_field_3(s, f) ==
    IF FirstIs(f, 3, "int") /\ f[3][1].v > 0
    THEN [s EXCEPT !.configured_dimming_time_minutes =
                       Some(f[3][1].v \div 60000)]
    ELSE s

\* The remaining time is kept as the device reported it.
force_off_never(s) == s

\* "if self._state.is_on is False: self._state.dimming_time_minutes = 0"
force_off(s) ==
    IF s.is_on = Some(FALSE)
    THEN [s EXCEPT !.dimming_time_minutes = Some(0)]
    ELSE s

\* Sub-field 4: paused indicator.
sub_field_4(s, f) ==
    IF FirstIs(f, 4, "int")
    THEN [s EXCEPT !.is_paused = Some(f[4][1].v # 0)]
    ELSE s

\* An unrecognised raw value keeps the battery level known before.
battery_keep_unknown(s, inner) ==
    IF FirstIs(inner, 2, "int") /\ from_raw(inner[2][1].v) # None
    THEN [s EXCEPT !.battery_level = from_raw(inner[2][1].v)]
    ELSE s

\* Sub-field 7, parsed: battery level in inner field 2.
battery(s, inner) ==
    IF FirstIs(inner, 2, "int")
    THEN [s EXCEPT !.battery_level = from_raw(inner[2][1].v)]
    ELSE s

\* Sub-field 8 read as the battery level when it is a varint.
sub_field_8_battery(s, f) ==
    IF FirstIs(f, 8, "int")
    THEN [s EXCEPT !.battery_level = from_raw(f[8][1].v)]
    ELSE IF FirstIs(f, 7, "bytes")
    THEN battery(s, parse_protobuf_fields(f[7][1].b))
    ELSE s

\* Sub-field 7: battery level (nested message).
sub_field_7(s, f) ==
    IF FirstIs(f, 7, "bytes")
    THEN battery(s, parse_protobuf_fields(f[7][1].b))
    ELSE s

\* _parse_state_notification from the result of parse_state_response: the
\* sub-fields are applied in the order of the source.
decode_state(s, data, resp) ==
    IF resp = None THEN [state |-> s, ret |-> FALSE]
    ELSE [state |->
              sub_field_7(
                sub_field_4(
                  force_off(
                    sub_field_3(
                      sub_field_2(
                        sub_field_1([s EXCEPT !.raw_state = Some(data)],
                                    resp[1]),
                        resp[1]),
                      resp[1])),
                  resp[1]),
                resp[1]),
          ret |-> TRUE]

\* CasperGlow._parse_state_notification: the new state and the return value.
parse_state_notification(s, data) ==
    decode_state(s, data, parse_state_response(data))

(***************************************************************************)
(* Bounds and inputs of the model                                          *)
(***************************************************************************)
\* Public operations invoked in one behaviour, notifications delivered in one
\* behaviour.
MaxOps == 2
MaxNotifs == 2

\* Concurrent callers (asyncio tasks) of one CasperGlow instance.
Tasks == {1, 2}

\* Connections: 0 is the client supplied at construction, t is the client that
\* establish_connection returned to task t.  As the owner of a notification
\* handler, 0 is the closure of an exchange that has ended.
Conns == {0} \cup Tasks

BrightnessArgs == {50, 80}
MinuteArgs == {20, 30}

Op(name, arg) == [name |-> name, arg |-> arg]

Ops ==
    {Op("turn_on", None), Op("turn_off", None), Op("pause", None),
     Op("resume", None), Op("query_state", None)}
    \cup {Op("turn_on", Some(b)) : b \in BrightnessArgs}
    \cup {Op("set_brightness", Some(b)) : b \in BrightnessArgs}
    \cup {Op("set_dimming_time", Some(m)) : m \in MinuteArgs}

\* Notifications the device may send (tests/test_device.py builds the same
\* shapes): field 1 = token followed by the ready marker ...
ready_notification(token) ==
    <<8>> \o encode_varint(token).bytes \o READY_MARKER

\* ... and field 1 = token, field 4 { field 19 { state_inner } }.
state_notification(token, state_inner) ==
    LET field4_body == encode_varint(STATE_RESPONSE_FIELD * 8 + 2).bytes
                           \o encode_varint(Len(state_inner)).bytes
                           \o state_inner
    IN  <<8>> \o encode_varint(token).bytes
            \o <<34>> \o encode_varint(Len(field4_body)).bytes \o field4_body

\* on, 10 of 45 minutes remaining, not paused
StateOn == <<8, 1>> \o <<16>> \o encode_varint(600000).bytes
               \o <<24>> \o encode_varint(2700000).bytes \o <<32, 0>>
\* off, yet reporting a remaining time and the paused indicator
StateOffPaused == <<8, 3>> \o <<16>> \o encode_varint(600000).bytes
                      \o <<24, 0>> \o <<32, 1>>
\* a power indicator that is neither 1 (on) nor 3 (off)
StateOdd == <<8, 2>>

\* What the device sends during the exchanges of the model: a bare ready
\* notification, the ready marker without a token field, state alone, and
\* state and ready marker in one notification.
Notifications ==
    {ready_notification(300),
     READY_MARKER,
     state_notification(42, StateOffPaused),
     state_notification(42, StateOn) \o READY_MARKER}

(***************************************************************************)
(* State                                                                   *)
(***************************************************************************)
VARIABLES
    external,     \* a client was supplied at construction (_external_client)
    connected,    \* connected[c]: client c is connected (is_connected)
    handler,      \* handler[c]: None, or Some(owner of the subscribed closure)
    state,        \* CasperGlow._state
    lock,         \* _ble_lock: None, or Some(task holding it)
    waiters,      \* tasks queued on _ble_lock, in arrival order
    pc,           \* pc[t]: "idle", or the await task t is suspended in
    op,           \* op[t]: the public operation task t last invoked
    phase,        \* phase[t]: 1, or 2 in the brightness exchange of turn_on
    body,         \* body[t]: action_body of task t's exchange
    token,        \* the closure variables of task t's exchange
    ready_event,
    state_event,
    exc,          \* exc[t]: the exception pending while the finally clause runs
    outcome,      \* outcome[t]: "none" while running, "ok", or the error raised
    trace,        \* trace[t]: the transport calls and events of task t's operation
    snapshots,    \* whether pre is recorded in this behaviour
    pre,          \* pre[t]: Device State when task t invoked its operation
    nops,         \* operations invoked so far
    nnotifs,      \* notifications delivered so far
    varint,       \* a call of encode_varint and of parse_varint on its result
    call,         \* a call of one function of protocol.py and what it returned
    hist,         \* what the transport and the callers saw, in order
    registry,     \* _callbacks, the unregister closures and their calls
    scan          \* one iteration of discover_glows

vars ==
    <<external, connected, handler, state, lock, waiters, pc, op, phase, body,
      token, ready_event, state_event, exc, outcome, trace, snapshots, pre,
      nops, nnotifs, varint, call, hist, registry, scan>>

\* The whole state as one record, so that the straight-line code between two
\* awaits composes as functions.
Cur ==
    [external |-> external, connected |-> connected, handler |-> handler,
     state |-> state, lock |-> lock, waiters |-> waiters, pc |-> pc,
     op |-> op, phase |-> phase, body |-> body, token |-> token,
     ready_event |-> ready_event, state_event |-> state_event, exc |-> exc,
     outcome |-> outcome, trace |-> trace, snapshots |-> snapshots,
     pre |-> pre, nops |-> nops, nnotifs |-> nnotifs]

\* The last element of a non-empty trace.
Newest(tr) == tr[Len(tr)]

\* What a step from m0 to m adds to the record of the transport and of the
\* callers, when one is kept: the packet a task wrote (a step issues at most
\* one write), whether a delivered notification changed Device State, and the
\* operation that finished with its outcome.
observe(h, m0, m) ==
    IF ~h.on THEN h
    ELSE [written |->
              IF \E t \in DOMAIN m.trace :
                     /\ Len(m.trace[t]) > Len(m0.trace[t])
                     /\ Newest(m.trace[t]).e = "write"
              THEN Append(h.written,
                          Newest(m.trace[CHOOSE t \in DOMAIN m.trace :
                                     /\ Len(m.trace[t]) > Len(m0.trace[t])
                                     /\ Newest(m.trace[t]).e = "write"]).d)
              ELSE h.written,
          notified |->
              h.notified \/ (m.nnotifs > m0.nnotifs /\ m.state # m0.state),
          returned |->
              IF \E t \in DOMAIN m.pc : m.pc[t] = "done" /\ m0.pc[t] # "done"
              THEN Append(h.returned,
                          LET t == CHOOSE t \in DOMAIN m.pc :
                                       m.pc[t] = "done" /\ m0.pc[t] # "done"
                          IN  [task |-> t, op |-> m.op[t],
                               outcome |-> m.outcome[t]])
              ELSE h.returned,
          on |-> TRUE]

Becomes(m) ==
    /\ external' = m.external
    /\ connected' = m.connected
    /\ handler' = m.handler
    /\ state' = m.state
    /\ lock' = m.lock
    /\ waiters' = m.waiters
    /\ pc' = m.pc
    /\ op' = m.op
    /\ phase' = m.phase
    /\ body' = m.body
    /\ token' = m.token
    /\ ready_event' = m.ready_event
    /\ state_event' = m.state_event
    /\ exc' = m.exc
    /\ outcome' = m.outcome
    /\ trace' = m.trace
    /\ snapshots' = m.snapshots
    /\ pre' = m.pre
    /\ nops' = m.nops
    /\ nnotifs' = m.nnotifs
    /\ hist' = observe(hist, Cur, m)
    /\ UNCHANGED <<varint, call, registry, scan>>

\* No call of the varint codec is followed.
NoVarint == [value |-> 0, prefix |-> <<>>, encoded |-> None, parsed |-> None]

\* No record of the transport and of the callers is kept.
NoHist == [written |-> <<>>, notified |-> FALSE, returned |-> <<>>,
           on |-> FALSE]

\* self._callbacks = [] and no unregister closure yet.
NoRegistry == [callbacks |-> <<>>, handles |-> <<>>, invoked |-> <<>>,
               raised |-> FALSE]

\* discover_glows has not been called.
NoScan == [pc |-> "idle", seen |-> {}, queue |-> <<>>, yielded |-> <<>>,
           detected |-> <<>>, stops |-> 0, cause |-> "none"]

\* No call of a function of protocol.py is followed.
NoCall == [fn |-> "none", data |-> <<>>, start |-> 0, value |-> 0,
           items |-> <<>>, tail |-> <<>>, args |-> <<>>, ret |-> None]

Event(e, d) == [e |-> e, d |-> d]
Log(m, t, e, d) == [m EXCEPT !.trace[t] = Append(@, Event(e, d))]

\* The client after construction, its supplied connection (if any) connected
\* or not, and no operation invoked yet.
Constructed ==
    /\ external \in BOOLEAN
    /\ connected \in [Conns -> BOOLEAN]
    /\ \A c \in Tasks : ~connected[c]
    /\ external \/ ~connected[0]
    /\ handler = [c \in Conns |-> None]
    /\ lock = None
    /\ waiters = <<>>
    /\ pc = [t \in Tasks |-> "idle"]
    /\ op = [t \in Tasks |-> Op("turn_on", None)]
    /\ phase = [t \in Tasks |-> 1]
    /\ body = [t \in Tasks |-> <<>>]
    /\ token = [t \in Tasks |-> None]
    /\ ready_event = [t \in Tasks |-> FALSE]
    /\ state_event = [t \in Tasks |-> FALSE]
    /\ exc = [t \in Tasks |-> "none"]
    /\ outcome = [t \in Tasks |-> "none"]
    /\ trace = [t \in Tasks |-> <<>>]
    /\ pre = [t \in Tasks |-> GlowState]
    /\ nops = 0
    /\ nnotifs = 0

Init ==
    /\ Constructed /\ state = GlowState /\ snapshots = FALSE
    /\ varint = NoVarint /\ call = NoCall
    /\ hist = NoHist /\ registry = NoRegistry /\ scan = NoScan

(***************************************************************************)
(* device.py: the command exchange.  Each operator below is the code a    *)
(* task runs without suspending; each action further down is a task       *)
(* resuming from one await and running to the next.  A transport call is  *)
(* logged in the task's trace when it is issued.                           *)
(***************************************************************************)
ClientOf(m, t) == IF m.external THEN 0 ELSE t

\* await client.start_notify(READ_CHAR_UUID, _on_notify), issued
start_notify(m, t) ==
    [Log(m, t, "subscribe", <<>>) EXCEPT !.pc[t] = "start_notify"]

\* await client.write_gatt_char(WRITE_CHAR_UUID, data), issued
write_gatt_char(m, t, data, at) ==
    [Log(m, t, "write", data) EXCEPT !.pc[t] = at]

\* Mutant of fire_callbacks: the observers are not run.
fire_callbacks_never(m, t) == m

\* _fire_callbacks: every registered callback is called with self._state; the
\* trace keeps the state they are called with.
fire_callbacks(m, t) == Log(m, t, "fire", m.state)

\* The body of "async with self._ble_lock" up to its first await: fresh
\* closure variables, then the client is obtained.
begin_exchange(m, t) ==
    LET m1 == [Log(m, t, "begin", <<>>) EXCEPT
                  !.lock = Some(t), !.ready_event[t] = FALSE,
                  !.state_event[t] = FALSE, !.token[t] = None]
    IN  IF m1.external
        THEN IF m1.connected[0]
             THEN start_notify(m1, t)
             ELSE [Log(m1, t, "connect", <<>>) EXCEPT !.pc[t] = "connect"]
        ELSE [Log(m1, t, "establish", <<>>) EXCEPT !.pc[t] = "establish"]

\* Mutant of acquire: the exchange starts without taking notice of the lock.
acquire_unlocked(m, t) == begin_exchange(m, t)

\* asyncio.Lock.acquire: taken at once when free and nobody queues, else the
\* task queues behind the earlier waiters.
acquire(m, t) ==
    IF m.lock = None /\ m.waiters = <<>>
    THEN begin_exchange(m, t)
    ELSE [m EXCEPT !.waiters = Append(@, t), !.pc[t] = "lock"]

\* An exception reaches the caller of the public operation.
raise(m, t, e) == [m EXCEPT !.outcome[t] = e, !.pc[t] = "done"]

\* The public operation returns normally.
return(m, t) == [m EXCEPT !.outcome[t] = "ok", !.pc[t] = "done"]

\* The remaining time in place of the configured duration.
dim_min_remaining(s) ==
    IF s.dimming_time_minutes = None \/ s.dimming_time_minutes = Some(0)
    THEN DIMMING_TIME_MINUTES[1]
    ELSE s.dimming_time_minutes[1]

\* self._state.configured_dimming_time_minutes or DIMMING_TIME_MINUTES[0]
dim_min(s) ==
    IF s.configured_dimming_time_minutes = None
           \/ s.configured_dimming_time_minutes = Some(0)
    THEN DIMMING_TIME_MINUTES[1]
    ELSE s.configured_dimming_time_minutes[1]

\* set_brightness that records the level without any exchange.
set_brightness_unsent(m, t, level) ==
    IF ~InTuple(level, BRIGHTNESS_LEVELS)
    THEN raise(m, t, "ValueError")
    ELSE return([m EXCEPT !.state.brightness_level = Some(level)], t)

\* set_brightness up to its await of _execute_command
set_brightness(m, t, level) ==
    IF ~InTuple(level, BRIGHTNESS_LEVELS)
    THEN raise(m, t, "ValueError")
    ELSE acquire([m EXCEPT !.body[t] =
                     build_brightness_body(level, dim_min(m.state) * 60000)],
                 t)

\* set_dimming_time sending the duration that set_brightness would send.
set_dimming_time_configured(m, t, minutes) ==
    IF ~InTuple(minutes, DIMMING_TIME_MINUTES)
    THEN raise(m, t, "ValueError")
    ELSE IF m.state.brightness_level = None
    THEN raise(m, t, "ValueError")
    ELSE acquire([m EXCEPT !.body[t] =
                     build_brightness_body(m.state.brightness_level[1],
                                           dim_min(m.state) * 60000)],
                 t)

\* set_dimming_time up to its await of _execute_command
set_dimming_time(m, t, minutes) ==
    IF ~InTuple(minutes, DIMMING_TIME_MINUTES)
    THEN raise(m, t, "ValueError")
    ELSE IF m.state.brightness_level = None
    THEN raise(m, t, "ValueError")
    ELSE acquire([m EXCEPT !.body[t] =
                     build_brightness_body(m.state.brightness_level[1],
                                           minutes * 60000)],
                 t)

\* handshake up to its first await: a fresh ready_event, then
\* establish_connection, whether or not a client was supplied, and without
\* the lock.
handshake(m, t) ==
    [Log(m, t, "establish", <<>>) EXCEPT
        !.ready_event[t] = FALSE, !.pc[t] = "hs_establish"]

\* A public operation up to its first suspension.
invoke(m, t, o) ==
    LET m1 == [m EXCEPT !.op[t] = o, !.phase[t] = 1, !.outcome[t] = "none",
                        !.exc[t] = "none", !.trace[t] = <<>>,
                        !.pre[t] = IF m.snapshots THEN m.state ELSE GlowState,
                        !.nops = @ + 1]
    IN  CASE o.name = "turn_on" ->
                acquire([m1 EXCEPT !.body[t] = ACTION_BODY_ON], t)
          [] o.name = "turn_off" ->
                acquire([m1 EXCEPT !.body[t] = ACTION_BODY_OFF], t)
          [] o.name = "pause" ->
                acquire([m1 EXCEPT !.body[t] = ACTION_BODY_PAUSE], t)
          [] o.name = "resume" ->
                acquire([m1 EXCEPT !.body[t] = ACTION_BODY_RESUME], t)
          [] o.name = "set_brightness" -> set_brightness(m1, t, o.arg[1])
          [] o.name = "set_dimming_time" -> set_dimming_time(m1, t, o.arg[1])
          [] o.name = "query_state" ->
                acquire([m1 EXCEPT !.body[t] = QUERY_STATE_BODY], t)
          [] o.name = "handshake" -> handshake(m1, t)

\* The public operation after its _execute_command returned normally.
after_exchange(m, t) ==
    LET o == m.op[t]
    IN  CASE o.name = "turn_on" /\ m.phase[t] = 1 ->
                LET m1 == [m EXCEPT !.state.is_on = Some(TRUE)]
                IN  IF o.arg # None
                    THEN set_brightness([m1 EXCEPT !.phase[t] = 2], t,
                                        o.arg[1])
                    ELSE return(fire_callbacks(m1, t), t)
          [] o.name = "turn_on" /\ m.phase[t] = 2 ->
                \* set_brightness returns into turn_on
                return(fire_callbacks(fire_callbacks(
                    [m EXCEPT !.state.brightness_level = o.arg], t), t), t)
          [] o.name = "turn_off" ->
                return(fire_callbacks(
                    [m EXCEPT !.state.is_on = Some(FALSE),
                              !.state.dimming_time_minutes = Some(0)], t), t)
          [] o.name = "pause" ->
                return(fire_callbacks(
                    [m EXCEPT !.state.is_paused = Some(TRUE)], t), t)
          [] o.name = "resume" ->
                return(fire_callbacks(
                    [m EXCEPT !.state.is_paused = Some(FALSE)], t), t)
          [] o.name = "set_dimming_time" ->
                return(fire_callbacks(
                    [m EXCEPT !.state.configured_dimming_time_minutes = o.arg],
                    t), t)
          [] o.name = "set_brightness" ->
                return(fire_callbacks(
                    [m EXCEPT !.state.brightness_level = o.arg], t), t)
          [] o.name = "query_state" ->
                \* return self._state
                return(m, t)

\* Leaving the exchange while keeping the lock.
leave_holding(m, t, e) ==
    LET m1 == [m EXCEPT
                  !.handler = [c \in Conns |->
                                  IF m.handler[c] = Some(t)
                                  THEN Some(0) ELSE m.handler[c]],
                  !.token[t] = None, !.ready_event[t] = FALSE,
                  !.state_event[t] = FALSE, !.exc[t] = "none"]
    IN  IF e # "none" THEN raise(m1, t, e) ELSE after_exchange(m1, t)

\* Leaving "async with self._ble_lock" with exception e ("none": normally):
\* the lock is released and the closure of the exchange is dead.
leave(m, t, e) ==
    LET m1 == [m EXCEPT
                  !.lock = None,
                  !.handler = [c \in Conns |->
                                  IF m.handler[c] = Some(t)
                                  THEN Some(0) ELSE m.handler[c]],
                  !.token[t] = None, !.ready_event[t] = FALSE,
                  !.state_event[t] = FALSE, !.exc[t] = "none"]
    IN  IF e # "none" THEN raise(m1, t, e) ELSE after_exchange(m1, t)

\* Mutant of finally: the disconnect is on the success path only.
finally_on_success(m, t, e) ==
    IF ~m.external /\ e = "none"
    THEN [Log(m, t, "disconnect", <<>>) EXCEPT
             !.pc[t] = "disconnect", !.exc[t] = e]
    ELSE leave(m, t, e)

\* The finally clause: a client the exchange established itself is
\* disconnected, a supplied one is left alone.
finally(m, t, e) ==
    IF ~m.external
    THEN [Log(m, t, "disconnect", <<>>) EXCEPT
             !.pc[t] = "disconnect", !.exc[t] = e]
    ELSE leave(m, t, e)

\* _on_notify: the notification is decoded into Device State (query_state's
\* closure also sets its state_event when state was found).
on_notify_state(m, t, data, parsed) ==
    [Log(m, t, "notify", data) EXCEPT
        !.state = parsed.state,
        !.state_event[t] = @ \/ (m.op[t].name = "query_state" /\ parsed.ret)]

\* _on_notify: "if extracted is not None: token = extracted;
\* ready_event.set()"
on_notify_token(m, t, extracted) ==
    IF extracted # None
    THEN [m EXCEPT !.token[t] = extracted, !.ready_event[t] = TRUE]
    ELSE m

\* Mutant of on_notify_ready: any notification with a field-1 value counts as
\* ready, whether or not it carries the ready marker.
on_notify_unmarked(m, t, data) ==
    on_notify_token(m, t, extract_token_from_notify(data))

\* _on_notify: "if payload_contains_ready_marker(bytes(data)): ..."
on_notify_ready(m, t, data) ==
    IF payload_contains_ready_marker(data)
    THEN on_notify_token(m, t, extract_token_from_notify(data))
    ELSE m

\* A handler that looks for state only in notifications without the marker.
on_notify_exclusive(m, t, data) ==
    IF payload_contains_ready_marker(data)
    THEN on_notify_ready(Log(m, t, "notify", data), t, data)
    ELSE on_notify_state(m, t, data, parse_state_notification(m.state, data))

\* _on_notify of _execute_command and of query_state, run by the closure of
\* task t's exchange (only query_state's closure has a state_event).
on_notify(m, t, data) ==
    on_notify_ready(
        on_notify_state(m, t, data, parse_state_notification(m.state, data)),
        t, data)

\* A handshake closure that wants a token, as the closure of a command does.
on_notify_handshake_token(m, t, data) ==
    on_notify_ready(Log(m, t, "notify", data), t, data)

\* _on_notify of handshake: "if payload_contains_ready_marker(bytes(data)):
\* ready_event.set()"
on_notify_handshake(m, t, data) ==
    [Log(m, t, "notify", data) EXCEPT
        !.ready_event[t] = @ \/ payload_contains_ready_marker(data)]

\* The finally clause of handshake: "await client.disconnect()", issued.
handshake_finally(m, t, e) ==
    [Log(m, t, "disconnect", <<>>) EXCEPT
        !.pc[t] = "hs_disconnect", !.exc[t] = e]

\* The closure of an exchange that has ended still decodes state; its token
\* and event no longer belong to any exchange.
on_notify_ended(m, data) ==
    [m EXCEPT !.state = parse_state_notification(m.state, data).state]

(***************************************************************************)
(* Actions                                                                 *)
(***************************************************************************)
\* A public operation returns into its caller, which runs on at once: no
\* other task runs between the return and the caller's next statement.
Returned == \E t \in Tasks : pc[t] = "done"

\* A caller invokes a public operation; it runs as the first free task.
Invoke(t, o) ==
    /\ ~Returned
    /\ pc[t] = "idle"
    /\ \A u \in Tasks : u < t => pc[u] # "idle"
    /\ nops < MaxOps
    /\ Becomes(invoke(Cur, t, o))

\* The caller has the result or the error of task t's operation; the task is
\* free again.
Collect(t) ==
    /\ pc[t] = "done"
    /\ Becomes([Cur EXCEPT !.pc[t] = "idle", !.outcome[t] = "none",
                           !.trace[t] = <<>>, !.pre[t] = GlowState,
                           !.op[t] = Op("turn_on", None), !.phase[t] = 1,
                           !.body[t] = <<>>])

\* The lock is free and task t is the first waiter: it takes the lock.
LockGranted(t) ==
    /\ ~Returned
    /\ pc[t] = "lock"
    /\ lock = None
    /\ waiters # <<>> /\ Head(waiters) = t
    /\ Becomes(begin_exchange([Cur EXCEPT !.waiters = Tail(@)], t))

\* establish_connection returns a connected client, or fails (outside the
\* try block: nothing to disconnect).
EstablishDone(t, ok) ==
    /\ ~Returned
    /\ pc[t] = "establish"
    /\ Becomes(IF ok
               THEN start_notify([Cur EXCEPT !.connected[t] = TRUE], t)
               ELSE leave(Cur, t, "TransportError"))

\* client.connect() returns or fails.
ConnectDone(t, ok) ==
    /\ ~Returned
    /\ pc[t] = "connect"
    /\ Becomes(IF ok
               THEN start_notify(
                        [Cur EXCEPT !.connected[ClientOf(Cur, t)] = TRUE], t)
               ELSE finally(Cur, t, "TransportError"))

\* Mutant of StartNotifyDone: the handshake packet is not written.
StartNotifyDone_silent(t, ok) ==
    /\ ~Returned
    /\ pc[t] = "start_notify"
    /\ Becomes(IF ok
               THEN [Cur EXCEPT !.handler[ClientOf(Cur, t)] = Some(t),
                                !.pc[t] = "write_handshake"]
               ELSE finally(Cur, t, "TransportError"))

\* start_notify returns (the closure is subscribed; the handshake packet is
\* written) or fails.
StartNotifyDone(t, ok) ==
    /\ ~Returned
    /\ pc[t] = "start_notify"
    /\ Becomes(IF ok
               THEN write_gatt_char(
                        [Cur EXCEPT !.handler[ClientOf(Cur, t)] = Some(t)],
                        t, RECONNECT_PACKET, "write_handshake")
               ELSE finally(Cur, t, "TransportError"))

\* The write of the handshake packet returns (the wait for ready begins) or
\* fails.
WriteHandshakeDone(t, ok) ==
    /\ ~Returned
    /\ pc[t] = "write_handshake"
    /\ Becomes(IF ok
               THEN [Cur EXCEPT !.pc[t] = "await_ready"]
               ELSE finally(Cur, t, "TransportError"))

\* wait_for(ready_event.wait()) returns: the action packet is built with the
\* token of the closure and written.
ReadyDone(t) ==
    /\ ~Returned
    /\ pc[t] = "await_ready"
    /\ ready_event[t]
    /\ Becomes(IF token[t] = None
               THEN finally(Cur, t, "CommandError")
               ELSE write_gatt_char(
                        Cur, t, build_action_packet(token[t][1], body[t]),
                        "write_action"))

\* Mutant of HandshakeTimeout: the error leaves without the finally clause.
HandshakeTimeout_nocleanup(t) ==
    /\ ~Returned
    /\ pc[t] = "await_ready"
    /\ ~ready_event[t]
    /\ Becomes(leave(Cur, t, "HandshakeTimeoutError"))

\* wait_for(ready_event.wait()) times out.
HandshakeTimeout(t) ==
    /\ ~Returned
    /\ pc[t] = "await_ready"
    /\ ~ready_event[t]
    /\ Becomes(finally(Cur, t, "HandshakeTimeoutError"))

\* The write of the action packet returns or fails; query_state goes on to
\* wait for a state notification.
WriteActionDone(t, ok) ==
    /\ ~Returned
    /\ pc[t] = "write_action"
    /\ Becomes(IF ~ok THEN finally(Cur, t, "TransportError")
               ELSE IF op[t].name = "query_state"
               THEN [Cur EXCEPT !.pc[t] = "await_state"]
               ELSE finally(Cur, t, "none"))

\* query_state: wait_for(state_event.wait()) returns.
StateDone(t) ==
    /\ ~Returned
    /\ pc[t] = "await_state"
    /\ state_event[t]
    /\ Becomes(finally(fire_callbacks(Cur, t), t, "none"))

\* Mutant of StateTimeout: the timeout of the state wait is raised.
StateTimeout_raises(t) ==
    /\ ~Returned
    /\ pc[t] = "await_state"
    /\ ~state_event[t]
    /\ Becomes(finally(Cur, t, "TimeoutError"))

\* query_state: wait_for(state_event.wait()) times out, which is logged only.
StateTimeout(t) ==
    /\ ~Returned
    /\ pc[t] = "await_state"
    /\ ~state_event[t]
    /\ Becomes(finally(fire_callbacks(Cur, t), t, "none"))

\* client.disconnect() returns: the exchange is over.
DisconnectDone(t) ==
    /\ ~Returned
    /\ pc[t] = "disconnect"
    /\ Becomes(leave([Cur EXCEPT !.connected[t] = FALSE,
                                 !.handler[t] = None],
                     t, exc[t]))

\* The device sends a notification on connection c, where a closure is
\* subscribed.
Notify(c, data) ==
    /\ ~Returned
    /\ nnotifs < MaxNotifs
    /\ connected[c]
    /\ handler[c] # None
    /\ Becomes(LET m == [Cur EXCEPT !.nnotifs = @ + 1]
               IN  IF handler[c][1] = 0
                   THEN on_notify_ended(m, data)
                   ELSE IF op[handler[c][1]].name = "handshake"
                   THEN on_notify_handshake(m, handler[c][1], data)
                   ELSE on_notify(m, handler[c][1], data))

\* handshake: establish_connection returns a connected client, or fails
\* (before the try block: nothing to disconnect).
HandshakeEstablishDone(t, ok) ==
    /\ ~Returned
    /\ pc[t] = "hs_establish"
    /\ Becomes(IF ok
               THEN [Log([Cur EXCEPT !.connected[t] = TRUE],
                         t, "subscribe", <<>>)
                        EXCEPT !.pc[t] = "hs_start_notify"]
               ELSE raise(Cur, t, "TransportError"))

\* handshake: start_notify returns (the handshake packet is written) or fails.
HandshakeStartNotifyDone(t, ok) ==
    /\ ~Returned
    /\ pc[t] = "hs_start_notify"
    /\ Becomes(IF ok
               THEN write_gatt_char([Cur EXCEPT !.handler[t] = Some(t)],
                                    t, RECONNECT_PACKET, "hs_write")
               ELSE handshake_finally(Cur, t, "TransportError"))

\* handshake: the write returns (the wait for ready begins) or fails.
HandshakeWriteDone(t, ok) ==
    /\ ~Returned
    /\ pc[t] = "hs_write"
    /\ Becomes(IF ok
               THEN [Cur EXCEPT !.pc[t] = "hs_await_ready"]
               ELSE handshake_finally(Cur, t, "TransportError"))

\* handshake: wait_for(ready_event.wait()) returns.
HandshakeReadyDone(t) ==
    /\ ~Returned
    /\ pc[t] = "hs_await_ready"
    /\ ready_event[t]
    /\ Becomes(handshake_finally(Cur, t, "none"))

\* handshake: wait_for(ready_event.wait()) times out.
HandshakeWaitTimeout(t) ==
    /\ ~Returned
    /\ pc[t] = "hs_await_ready"
    /\ ~ready_event[t]
    /\ Becomes(handshake_finally(Cur, t, "HandshakeTimeoutError"))

\* handshake: client.disconnect() returns; the error, if any, goes on to the
\* caller.
HandshakeDisconnectDone(t) ==
    /\ ~Returned
    /\ pc[t] = "hs_disconnect"
    /\ Becomes(LET m == [Cur EXCEPT !.connected[t] = FALSE,
                                    !.handler[t] = None,
                                    !.ready_event[t] = FALSE,
                                    !.exc[t] = "none"]
               IN  IF exc[t] # "none" THEN raise(m, t, exc[t])
                   ELSE return(m, t))

Next ==
    \/ \E t \in Tasks : Collect(t)
    \/ \E t \in Tasks, o \in Ops : Invoke(t, o)
    \/ \E t \in Tasks : LockGranted(t)
    \/ \E t \in Tasks, ok \in BOOLEAN : EstablishDone(t, ok)
    \/ \E t \in Tasks, ok \in BOOLEAN : ConnectDone(t, ok)
    \/ \E t \in Tasks, ok \in BOOLEAN : StartNotifyDone(t, ok)
    \/ \E t \in Tasks, ok \in BOOLEAN : WriteHandshakeDone(t, ok)
    \/ \E t \in Tasks : ReadyDone(t)
    \/ \E t \in Tasks : HandshakeTimeout(t)
    \/ \E t \in Tasks, ok \in BOOLEAN : WriteActionDone(t, ok)
    \/ \E t \in Tasks : StateDone(t)
    \/ \E t \in Tasks : StateTimeout(t)
    \/ \E t \in Tasks : DisconnectDone(t)
    \/ \E c \in Conns, data \in Notifications : Notify(c, data)

Spec == Init /\ [][Next]_vars

\* The same behaviours, with Device State recorded at each invocation.
InitSnapshot ==
    /\ Constructed /\ state = GlowState /\ snapshots = TRUE
    /\ varint = NoVarint /\ call = NoCall
    /\ hist = NoHist /\ registry = NoRegistry /\ scan = NoScan

SpecSnapshot == InitSnapshot /\ [][Next]_vars

(***************************************************************************)
(* The decoder alone: _parse_state_notification applied to a sequence of  *)
(* notifications, from the state of a client whose brightness is unknown  *)
(* or was set by set_brightness(80).                                       *)
(***************************************************************************)
\* The field-19 body with the sub-fields 1 to 4 that are given (None: absent).
state_inner(sf1, sf2, sf3, sf4) ==
    (IF sf1 = None THEN <<>> ELSE <<8>> \o encode_varint(sf1[1]).bytes)
    \o (IF sf2 = None THEN <<>> ELSE <<16>> \o encode_varint(sf2[1]).bytes)
    \o (IF sf3 = None THEN <<>> ELSE <<24>> \o encode_varint(sf3[1]).bytes)
    \o (IF sf4 = None THEN <<>> ELSE <<32>> \o encode_varint(sf4[1]).bytes)

\* Field-19 bodies to which a sub-field 8 is appended.
Sub8Bases ==
    {state_inner(Some(1), Some(600000), Some(900000), Some(0)),
     state_inner(Some(3), Some(0), Some(0), None),
     <<58, 2, 16, 3>>}

\* Sub-field 8 absent, 100 as in the captures, 6, and as a nested message.
Sub8Tails == {<<>>, <<64, 100>>, <<64, 6>>, <<66, 2, 16, 6>>}

DecodeInputs ==
    {ready_notification(42)}
    \cup {state_notification(42, b \o t) : b \in Sub8Bases, t \in Sub8Tails}
    \cup {state_notification(42, state_inner(sf1, sf2, Some(0), sf4)) :
             sf1 \in {Some(3), Some(2)},
             sf2 \in {Some(0), Some(600000)},
             sf4 \in {None, Some(0), Some(1)}}
    \cup {state_notification(42, state_inner(Some(1), sf2, sf3, sf4)) :
             sf2 \in {Some(600000), Some(900000)},
             sf3 \in {Some(900000), Some(1800000)},
             sf4 \in {Some(0), Some(1)}}
    \cup {state_notification(42, state_inner(None, Some(900000),
                                             Some(1800000), None)),
          state_notification(42, state_inner(Some(0), None, None, None)),
          state_notification(42, state_inner(Some(1), None, None, None)
                                     \o <<58, 2, 16, 4>>)}
    \* sub-field 7 { field 2 = raw }, { field 1 = 6 }, { }, and as a varint
    \cup {state_notification(42, <<58, 2, 16, raw>>) :
             raw \in {0, 2, 3, 5, 6, 7}}
    \cup {state_notification(42, <<58, 2, 8, 6>>),
          state_notification(42, <<58, 0>>),
          state_notification(42, <<56, 6>>)}

Decode(data) ==
    /\ state' = parse_state_notification(state, data).state
    /\ UNCHANGED <<external, connected, handler, lock, waiters, pc, op, phase,
                   body, token, ready_event, state_event, exc, outcome, trace,
                   snapshots, pre, nops, nnotifs, varint, call, hist, registry,
                   scan>>

InitDecode ==
    /\ Constructed
    /\ ~external
    /\ snapshots = FALSE
    /\ state \in {GlowState,
                  [GlowState EXCEPT !.brightness_level = Some(80)]}
    /\ varint = NoVarint
    /\ call = NoCall
    /\ hist = NoHist /\ registry = NoRegistry /\ scan = NoScan

NextDecode == \E data \in DecodeInputs : Decode(data)

SpecDecode == InitDecode /\ [][NextDecode]_vars

(***************************************************************************)
(* The varint codec on its own: encode_varint(value), then parse_varint on *)
(* prefix + its result with start = len(prefix).  The values lie on both   *)
(* sides of every length change up to five bytes.                          *)
(***************************************************************************)
VarintValues ==
    {0, 1, 2, 42, 100, 126, 127, 128, 129, 150, 255, 256, 300, 1000, 16382,
     16383, 16384, 16385, 65535, 65536, 100000, 600000, 900000, 2097150,
     2097151, 2097152, 2097153, 2700000, 16777216, 268435454, 268435455,
     268435456, 268435457, 1000000000, 2147483646, 2147483647}

VarintPrefixes == {<<>>, <<8>>, <<255, 8>>, <<8, 255>>}

InitVarint ==
    /\ Constructed
    /\ ~external
    /\ state = GlowState
    /\ snapshots = FALSE
    /\ varint \in {[NoVarint EXCEPT !.value = v, !.prefix = p] :
                       v \in VarintValues, p \in VarintPrefixes}
    /\ call = NoCall
    /\ hist = NoHist /\ registry = NoRegistry /\ scan = NoScan

EncodeVarint ==
    /\ varint.encoded = None
    /\ encode_varint(varint.value).ok
    /\ varint' = [varint EXCEPT
                     !.encoded = Some(encode_varint(varint.value).bytes)]
    /\ UNCHANGED <<external, connected, handler, state, lock, waiters, pc,
                   op, phase, body, token, ready_event, state_event, exc,
                   outcome, trace, snapshots, pre, nops, nnotifs, call, hist,
                   registry, scan>>

ParseVarint ==
    /\ varint.encoded # None
    /\ varint.parsed = None
    /\ varint' = [varint EXCEPT
                     !.parsed = Some(parse_varint(
                                    varint.prefix \o varint.encoded[1],
                                    Len(varint.prefix)))]
    /\ UNCHANGED <<external, connected, handler, state, lock, waiters, pc,
                   op, phase, body, token, ready_event, state_event, exc,
                   outcome, trace, snapshots, pre, nops, nnotifs, call, hist,
                   registry, scan>>

NextVarint == EncodeVarint \/ ParseVarint

SpecVarint == InitVarint /\ [][NextVarint]_vars

(***************************************************************************)
(* Reading a trace                                                         *)
(***************************************************************************)
Max(S) == CHOOSE x \in S : \A y \in S : y <= x

Positions(tr, kind) == {i \in 1..Len(tr) : tr[i].e = kind}

\* The data of the transport writes of a trace, in order.
Writes(tr) ==
    LET w == SelectSeq(tr, LAMBDA ev : ev.e = "write")
    IN  [i \in 1..Len(w) |-> w[i].d]

\* The exchange that position i of a trace belongs to starts at its last
\* "begin" at or before i.
SegStart(tr, i) ==
    Max({j \in 1..Len(tr) : j <= i /\ tr[j].e = "begin"} \cup {0})

\* The last exchange of a trace.
LastExchange(tr) ==
    IF Positions(tr, "begin") = {} THEN <<>>
    ELSE SubSeq(tr, Max(Positions(tr, "begin")), Len(tr))

\* A notification that carries the ready marker and an extractable token.
IsReady(data) ==
    payload_contains_ready_marker(data)
        /\ extract_token_from_notify(data) # None

\* The ready notifications of its exchange received before position i.
ReadyBefore(tr, i) ==
    {j \in (SegStart(tr, i) + 1)..(i - 1) :
        tr[j].e = "notify" /\ IsReady(tr[j].d)}

TokenBefore(tr, i) ==
    extract_token_from_notify(tr[Max(ReadyBefore(tr, i))].d)[1]

\* Task t is between the notification subscribe and the end of its exchange.
InExchange(t) ==
    pc[t] \in {"start_notify", "write_handshake", "await_ready",
               "write_action", "await_state", "disconnect"}

Finished(t) == pc[t] = "done"

SingleExchange(o) == ~(o.name = "turn_on" /\ o.arg # None)

\* The action body that operation o sends: the fixed body, or a brightness
\* body (field 18) carrying the level or the duration that was asked for.
IsBodyOf(o, b) ==
    LET f == parse_protobuf_fields(b)
        inner == parse_protobuf_fields(f[18][1].b)
        brightness == /\ DOMAIN f = {18} /\ Len(f[18]) = 1
                      /\ f[18][1].t = "bytes"
                      /\ DOMAIN inner = {2, 3}
                      /\ Len(inner[2]) = 1 /\ Len(inner[3]) = 1
    IN  CASE o.name = "turn_on" -> b = ACTION_BODY_ON
          [] o.name = "turn_off" -> b = ACTION_BODY_OFF
          [] o.name = "pause" -> b = ACTION_BODY_PAUSE
          [] o.name = "resume" -> b = ACTION_BODY_RESUME
          [] o.name = "query_state" -> b = QUERY_STATE_BODY
          [] o.name = "set_brightness" ->
                brightness /\ inner[2][1] = IntVal(o.arg[1])
          [] o.name = "set_dimming_time" ->
                brightness /\ inner[3][1] = IntVal(o.arg[1] * 60000)

(***************************************************************************)
(* Claims                                                                  *)
(***************************************************************************)

\* C1: at most one task is between the subscribe and the end of its command
\* exchange at any time, and a task issues a transport write only while no
\* other task is inside an exchange: overlapping calls queue on the lock and
\* their writes never interleave.
C1_OneExchangeAtATime ==
    [][/\ \A t, u \in Tasks :
              t # u => ~(InExchange(t)' /\ InExchange(u)')
       /\ \A t \in Tasks :
              Len(Writes(trace'[t])) > Len(Writes(trace[t]))
                  => \A u \in Tasks \ {t} :
                         ~InExchange(u) /\ ~InExchange(u)']_vars

\* Two calls overlapped (the second task runs only while the first is busy),
\* the first has finished and the second has written its handshake packet.
C1_Witness ==
    /\ pc[1] = "idle"
    /\ InExchange(2)
    /\ Writes(trace[2]) # <<>>

\* C2: a successful single-exchange operation has made exactly two writes:
\* RECONNECT_PACKET, then build_action_packet(token, body) with the token most
\* recently extracted in the exchange and the operation's body; the subscribe
\* precedes the first write.
C2_TwoWritesInOrder ==
    \A t \in Tasks :
        Finished(t) /\ outcome[t] = "ok" /\ SingleExchange(op[t]) =>
            LET tr == trace[t]
                w == Writes(tr)
                at == Positions(tr, "write")
            IN  /\ Len(w) = 2
                /\ w[1] = RECONNECT_PACKET
                /\ LET second == Max(at)
                       f == parse_protobuf_fields(w[2])
                   IN  /\ ReadyBefore(tr, second) # {}
                       /\ DOMAIN f = {1, 2, 4}
                       /\ f[4][1].t = "bytes"
                       /\ IsBodyOf(op[t], f[4][1].b)
                       /\ w[2] = build_action_packet(TokenBefore(tr, second),
                                                     f[4][1].b)
                /\ Cardinality(Positions(tr, "subscribe")) = 1
                /\ \A i \in Positions(tr, "subscribe"), j \in at : i < j

\* set_dimming_time, which needs an earlier set_brightness, has succeeded.
C2_Witness ==
    \E t \in Tasks :
        /\ Finished(t) /\ outcome[t] = "ok"
        /\ op[t].name = "set_dimming_time"

\* C3: whenever an action packet has just been written, a notification with
\* the ready marker and an extractable token was received before it in the
\* same exchange, and field 2 of the packet is the token of the last such
\* notification.
C3_TokenOfThisExchange ==
    \A t \in Tasks :
        LET tr == trace[t]
        IN  (/\ tr # <<>>
             /\ Last(tr).e = "write"
             /\ Last(tr).d # RECONNECT_PACKET) =>
                /\ ReadyBefore(tr, Len(tr)) # {}
                /\ LET f == parse_protobuf_fields(Last(tr).d)
                   IN  /\ 2 \in DOMAIN f
                       /\ f[2] = <<IntVal(TokenBefore(tr, Len(tr)))>>

\* turn_on with a brightness has written two action packets, each with the
\* token of its own exchange, and the two tokens differ.
C3_Witness ==
    \E t \in Tasks :
        LET at == {i \in Positions(trace[t], "write") :
                      trace[t][i].d # RECONNECT_PACKET}
        IN  \E i, j \in at :
                /\ i < j
                /\ TokenBefore(trace[t], i) # TokenBefore(trace[t], j)

C5_MarkerWithoutTokenIsCommandError ==
    \A t \in Tasks :
        (/\ Finished(t)
         /\ \E i \in Positions(trace[t], "notify") :
                /\ payload_contains_ready_marker(trace[t][i].d)
                /\ extract_token_from_notify(trace[t][i].d) = None
                /\ Writes(SubSeq(trace[t], SegStart(trace[t], i), i))
                       = <<RECONNECT_PACKET>>)
            => outcome[t] = "CommandError"

\* C6: a supplied client is never disconnected; when an exchange on a client
\* it established is over (the operation has ended, or waits for the lock of
\* its next exchange), that client was disconnected exactly once if the
\* exchange got as far as the subscribe, as the last transport call of the
\* exchange, on every path, and it is no longer connected.
C6_DisconnectOnce ==
    \A t \in Tasks :
        LET tr == trace[t]
            begins == Positions(tr, "begin")
        IN  /\ external => Positions(tr, "disconnect") = {}
            /\ (~external /\ pc[t] \in {"done", "lock"}) =>
                 /\ ~connected[t]
                 /\ \A b \in begins :
                      LET later == {c \in begins : c > b}
                          e == IF later = {} THEN Len(tr)
                               ELSE Max({j \in b..Len(tr) :
                                            \A c \in later : j < c})
                          seg == SubSeq(tr, b, e)
                          dis == Positions(seg, "disconnect")
                      IN  /\ Cardinality(dis) <= 1
                          /\ Positions(seg, "subscribe") # {}
                                 => Cardinality(dis) = 1
                          /\ \A d \in dis : \A j \in (d + 1)..Len(seg) :
                                 seg[j].e \in {"notify", "fire"}

\* An exchange on a client of its own failed with a transport error after it
\* had subscribed, and the client has been disconnected once.
C6_Witness ==
    \E t \in Tasks :
        /\ ~external
        /\ Finished(t) /\ outcome[t] = "TransportError"
        /\ Positions(trace[t], "subscribe") # {}
        /\ Cardinality(Positions(trace[t], "disconnect")) = 1

\* C7: when a public operation has ended with an error, Device State is
\* exactly the Device State recorded when the operation was invoked.
C7_ErrorLeavesStateAsInvoked ==
    \A t \in Tasks :
        Finished(t) /\ outcome[t] # "ok" => state = pre[t]

\* The arguments of operation o are outside the accepted sets, or o is
\* set_dimming_time and Device State s has no brightness.
InvalidCall(o, s) ==
    \/ /\ o.name \in {"set_brightness", "turn_on"}
       /\ o.arg # None
       /\ ~InTuple(o.arg[1], BRIGHTNESS_LEVELS)
    \/ /\ o.name = "set_dimming_time"
       /\ \/ ~InTuple(o.arg[1], DIMMING_TIME_MINUTES)
          \/ s.brightness_level = None

\* C8: an operation invoked with a brightness or a duration outside the
\* accepted set, or set_dimming_time invoked while brightness is unknown, has
\* ended with ValueError without any transport call (no connection attempt,
\* no write) and with Device State as it was at the invocation.
C8_InvalidArgumentBeforeAnyTransport ==
    \A t \in Tasks :
        Finished(t) /\ InvalidCall(op[t], pre[t]) =>
            /\ outcome[t] = "ValueError"
            /\ trace[t] = <<>>
            /\ state = pre[t]

\* Sub-field 1 (the power indicator) of a state notification, None when the
\* notification carries no state or no varint sub-field 1.
PowerField(data) ==
    LET resp == parse_state_response(data)
    IN  IF resp = None THEN None
        ELSE IF FirstIs(resp[1], 1, "int") THEN Some(resp[1][1][1].v)
        ELSE None

\* C9: when the state notification decoded last reports power off (sub-field
\* 1 = 3), the remaining dimming time is 0 and the paused flag is false,
\* whatever its sub-fields 2 and 4 carry.
C9_OffForcesDefaults ==
    \A data \in DecodeInputs :
        state.raw_state = Some(data) /\ PowerField(data) = Some(3) =>
            /\ state.dimming_time_minutes = Some(0)
            /\ state.is_paused = Some(FALSE)

\* C10: decoding a state notification sets power on when sub-field 1 is 1,
\* off when it is 3, and leaves power as it was for any other value.
C10_PowerIndicator ==
    [][\A data \in DecodeInputs :
          state' = parse_state_notification(state, data).state =>
              LET p == PowerField(data)
              IN  CASE p = Some(1) -> state'.is_on = Some(TRUE)
                    [] p = Some(3) -> state'.is_on = Some(FALSE)
                    [] OTHER -> state'.is_on = state.is_on]_vars

\* The first value of sub-field k of a parsed field-19 body when it is a
\* varint, None otherwise.
sub_field_of(resp, k) ==
    IF resp = None THEN None
    ELSE IF FirstIs(resp[1], k, "int") THEN Some(resp[1][k][1].v)
    ELSE None

\* Varint sub-field k of the state content of a notification, None when the
\* notification carries no state or no such sub-field.
SubField(data, k) == sub_field_of(parse_state_response(data), k)

C12_SoftStateTimeout ==
    [][\A t \in Tasks :
          /\ (/\ pc[t] = "await_state" /\ pc'[t] # "await_state"
              /\ ~state_event[t])
                 => /\ state' = state
                    /\ IF external
                       THEN /\ Finished(t)'
                            /\ outcome'[t] = "ok"
                            /\ Positions(trace'[t], "disconnect") = {}
                       ELSE /\ pc'[t] = "disconnect"
                            /\ exc'[t] = "none"
                            /\ Last(trace'[t]).e = "disconnect"
          /\ (/\ pc[t] = "disconnect" /\ pc'[t] # "disconnect"
              /\ op[t].name = "query_state" /\ exc[t] = "none")
                 => /\ state' = state
                    /\ Finished(t)'
                    /\ outcome'[t] = "ok"
                    /\ ~connected'[t]
      ]_vars

\* query_state on a connection of its own has returned normally although its
\* exchange decoded no state notification at all; the client was disconnected.
C12_Witness ==
    \E t \in Tasks :
        /\ ~external
        /\ Finished(t) /\ outcome[t] = "ok"
        /\ op[t].name = "query_state"
        /\ \A i \in Positions(trace[t], "notify") :
               parse_state_response(trace[t][i].d) = None
        /\ Positions(trace[t], "disconnect") # {}
        /\ ~connected[t]

\* Device State s carries the local update of operation o.
Mutated(o, s) ==
    CASE o.name = "turn_on" -> s.is_on = Some(TRUE)
      [] o.name = "turn_off" ->
            s.is_on = Some(FALSE) /\ s.dimming_time_minutes = Some(0)
      [] o.name = "pause" -> s.is_paused = Some(TRUE)
      [] o.name = "resume" -> s.is_paused = Some(FALSE)
      [] o.name = "set_brightness" -> s.brightness_level = o.arg
      [] o.name = "set_dimming_time" ->
            s.configured_dimming_time_minutes = o.arg
      [] o.name = "query_state" -> TRUE

\* The observers were run once in an operation o with trace tr, after all
\* its writes, on a Device State that carries the operation's update: the
\* state s the operation returns with or, for query_state, the state with the
\* last state notification of the exchange decoded.
FiredOnce(o, tr, s) ==
    LET fires == Positions(tr, "fire")
    IN  /\ Cardinality(fires) = 1
        /\ \A i \in fires :
              /\ \A j \in Positions(tr, "write") : j < i
              /\ Mutated(o, tr[i].d)
              /\ IF o.name = "query_state"
                 THEN \A j \in Positions(tr, "notify") :
                          (/\ j < i
                           /\ parse_state_response(tr[j].d) # None
                           /\ \A k \in Positions(tr, "notify") :
                                  k > j /\ k < i =>
                                      parse_state_response(tr[k].d) = None)
                              => tr[i].d.raw_state = Some(tr[j].d)
                 ELSE i = Len(tr) /\ tr[i].d = s

BrightnessOf(b) ==
    LET f == parse_protobuf_fields(b)
    IN  IF DOMAIN f = {18} /\ Len(f[18]) = 1 /\ f[18][1].t = "bytes"
        THEN parse_protobuf_fields(f[18][1].b)
        ELSE NoFields

SendsBrightness(b, level, ms) ==
    /\ DOMAIN BrightnessOf(b) = {2, 3}
    /\ BrightnessOf(b)[2] = <<IntVal(level)>>
    /\ BrightnessOf(b)[3] = <<IntVal(ms)>>

\* Task t runs set_brightness, called directly or by turn_on(brightness).
InSetBrightness(o, ph) ==
    \/ o.name = "set_brightness"
    \/ o.name = "turn_on" /\ ph = 2

\* The action packet of the last exchange of a trace, if it was written.
ActionWritten(tr) ==
    LET w == Writes(LastExchange(tr))
    IN  IF Len(w) >= 2 THEN Some(w[2]) ELSE None

carries(resp, k) == resp # None /\ k \in DOMAIN resp[1]

\* The state content of a notification has a sub-field k.
Carries(data, k) == carries(parse_state_response(data), k)

\* C16: decoding a notification changes a field of the Device State only when
\* the notification carries its sub-field (power: 1, remaining time: 2,
\* configured duration: 3, paused: 4, battery: 7), except that the remaining
\* time and the paused flag may also change when the power is off afterwards;
\* the brightness never changes, and a notification without state content
\* changes nothing, the retained raw bytes included.
C16_DecodeFrame ==
    [][\A data \in DecodeInputs :
          state' = parse_state_notification(state, data).state =>
              /\ state'.brightness_level = state.brightness_level
              /\ parse_state_response(data) = None => state' = state
              /\ state'.raw_state # state.raw_state =>
                     parse_state_response(data) # None
              /\ state'.is_on # state.is_on => Carries(data, 1)
              /\ state'.dimming_time_minutes # state.dimming_time_minutes =>
                     Carries(data, 2) \/ state'.is_on = Some(FALSE)
              /\ state'.configured_dimming_time_minutes
                         # state.configured_dimming_time_minutes =>
                     Carries(data, 3)
              /\ state'.is_paused # state.is_paused =>
                     Carries(data, 4) \/ state'.is_on = Some(FALSE)
              /\ state'.battery_level # state.battery_level =>
                     Carries(data, 7)]_vars

\* The notification decoded last carried neither power nor paused flag, and
\* the power, the paused flag and the brightness known before it are kept.
C16_Witness ==
    /\ state.brightness_level = Some(80)
    /\ state.is_on = Some(TRUE)
    /\ state.is_paused = Some(TRUE)
    /\ \E data \in DecodeInputs :
           /\ state.raw_state = Some(data)
           /\ ~Carries(data, 1) /\ ~Carries(data, 4)
           /\ Carries(data, 2) /\ Carries(data, 3)

\* The step delivers a notification to the closure of task t's exchange.
Delivered(tr, tr2) ==
    /\ Len(tr2) = Len(tr) + 1
    /\ tr2[Len(tr2)].e = "notify"

\* C17: every notification delivered to the closure of an exchange is decoded
\* into the Device State, whether or not the token is known and whether or not
\* it carries the ready marker; a notification with the marker and a token
\* sets the token and the ready event in the same step, any other leaves them
\* as they were.
C17_DecodeThenReady ==
    [][\A t \in Tasks :
          (nnotifs' # nnotifs /\ Delivered(trace[t], trace'[t])) =>
              /\ state' = parse_state_notification(
                              state, trace'[t][Len(trace'[t])].d).state
              /\ IF IsReady(trace'[t][Len(trace'[t])].d)
                 THEN /\ ready_event'[t]
                      /\ token'[t] = extract_token_from_notify(
                                         trace'[t][Len(trace'[t])].d)
                 ELSE /\ ready_event'[t] = ready_event[t]
                      /\ token'[t] = token[t]]_vars

\* State content arrived before the token was known and was decoded; then one
\* notification with state content and ready marker was decoded too and its
\* token went into the action packet.
C17_Witness ==
    \E t \in Tasks :
        /\ \E i \in Positions(trace[t], "notify") :
              /\ i < Len(trace[t])
              /\ trace[t][i].d = state_notification(42, StateOffPaused)
              /\ trace[t][i + 1].e = "notify"
              /\ trace[t][i + 1].d
                     = state_notification(42, StateOn) \o READY_MARKER
              /\ ReadyBefore(trace[t], i + 1) = {}
              /\ state.raw_state = Some(trace[t][i + 1].d)
        /\ state.is_on = Some(TRUE)
        /\ ActionWritten(trace[t])
               = Some(build_action_packet(42, body[t]))

\* The positions of the transport writes of a trace, in order.
WritePos(tr, k) ==
    CHOOSE i \in Positions(tr, "write") :
        Cardinality({j \in Positions(tr, "write") : j <= i}) = k

\* The trace of turn_on(brightness): two exchanges, the first with the ON
\* body and the second with the brightness body b, each writing the handshake
\* packet and then the action packet with the token of its own handshake; the
\* first exchange is over, its client disconnected when it was established by
\* the exchange (ext: supplied at construction), before the second begins.
TwoExchanges(o, tr, b, ext) ==
    /\ Cardinality(Positions(tr, "begin")) = 2
    /\ Cardinality(Positions(tr, "write")) = 4
    /\ Writes(tr)[1] = RECONNECT_PACKET
    /\ Writes(tr)[2]
           = build_action_packet(TokenBefore(tr, WritePos(tr, 2)),
                                 ACTION_BODY_ON)
    /\ Writes(tr)[3] = RECONNECT_PACKET
    /\ Writes(tr)[4]
           = build_action_packet(TokenBefore(tr, WritePos(tr, 4)), b)
    /\ DOMAIN BrightnessOf(b) = {2, 3}
    /\ BrightnessOf(b)[2] = <<IntVal(o.arg[1])>>
    /\ WritePos(tr, 2) < Max(Positions(tr, "begin"))
    /\ Max(Positions(tr, "begin")) < WritePos(tr, 3)
    /\ ReadyBefore(tr, WritePos(tr, 2)) # {}
    /\ ReadyBefore(tr, WritePos(tr, 4)) # {}
    /\ IF ext
       THEN Positions(tr, "disconnect") = {}
       ELSE /\ Cardinality(Positions(tr, "disconnect")) = 2
            /\ \E i \in Positions(tr, "disconnect") :
                   /\ WritePos(tr, 2) < i
                   /\ i < Max(Positions(tr, "begin"))

\* C18: a turn_on(brightness) with a valid brightness that returns normally
\* has run two exchanges one after the other: handshake packet and ON packet,
\* the disconnect of an internally owned connection, then handshake packet and
\* brightness packet, each action packet with the token of its own exchange.
C18_TurnOnTwoExchanges ==
    [][\A t \in Tasks :
          (/\ pc[t] # "done" /\ pc'[t] = "done" /\ outcome'[t] = "ok"
           /\ op'[t].name = "turn_on" /\ op'[t].arg # None) =>
              TwoExchanges(op'[t], trace'[t], body'[t], external')]_vars

\* turn_on(80) returned normally on an internally owned connection; its two
\* exchanges got different tokens.
C18_Witness ==
    \E t \in Tasks :
        /\ Finished(t) /\ outcome[t] = "ok"
        /\ op[t] = Op("turn_on", Some(80))
        /\ ~external
        /\ Cardinality(Positions(trace[t], "write")) = 4
        /\ Writes(trace[t])[2] = build_action_packet(300, ACTION_BODY_ON)
        /\ Writes(trace[t])[4] = build_action_packet(42, body[t])
        /\ state.is_on = Some(TRUE)
        /\ state.brightness_level = Some(80)

\* C19: in every reachable Device State, whatever operations ran and whatever
\* notifications were decoded, power known to be off implies that the
\* remaining dimming time is 0.
C19_OffMeansNoRemainingTime ==
    state.is_on = Some(FALSE) => state.dimming_time_minutes = Some(0)

\* The notification decoded last reported power off together with 10 minutes
\* remaining, and the power is off.
C19_Witness ==
    /\ state.raw_state = Some(state_notification(42, StateOffPaused))
    /\ state.is_on = Some(FALSE)
    /\ SubField(state_notification(42, StateOffPaused), 2) = Some(600000)

\* C20: for every value v >= 0 of the range and every prefix,
\* parse_varint(prefix + encode_varint(v), start = len(prefix)) returns
\* (v, len(prefix) + len(encode_varint(v))); with the empty prefix this is
\* parse_varint(encode_varint(v)) = (v, len(encode_varint(v))).
C20_VarintRoundTrip ==
    varint.parsed # None =>
        varint.parsed[1] =
            [ok |-> TRUE, value |-> varint.value,
             pos |-> Len(varint.prefix) + Len(varint.encoded[1])]

\* A five-byte varint was parsed back behind a prefix that ends in a byte with
\* the continuation bit.
C20_Witness ==
    /\ varint.parsed # None
    /\ varint.value = 2147483647
    /\ Len(varint.encoded[1]) = 5
    /\ varint.prefix = <<8, 255>>
    /\ varint.parsed[1].pos = 7

(***************************************************************************)
(* The functions of protocol.py on their own, each called once on a byte   *)
(* buffer: every buffer of at most MaxLen bytes over Bytes (tags of fields *)
(* 1 and 4 with wire types 0, 2 and 5, small values, continuation bytes),  *)
(* and every prefix of a state notification, as it is or with its last    *)
(* byte turned into a continuation byte.                                   *)
(***************************************************************************)
MaxLen == 3

Bytes == {0, 1, 2, 8, 10, 13, 34, 128, 255}

Prefixes(b) == {SubSeq(b, 1, n) : n \in 0..Len(b)}

Corrupted(b) ==
    IF b = <<>> THEN b ELSE [b EXCEPT ![Len(b)] = 128 + (@ % 128)]

Buffers ==
    UNION {[1..n -> Bytes] : n \in 0..MaxLen}
    \cup Prefixes(state_notification(42, StateOn) \o READY_MARKER)
    \cup {Corrupted(b) :
            b \in Prefixes(state_notification(42, StateOn) \o READY_MARKER)}

EncodeValues == {-300, -1, 0, 1, 127, 128, 300}

client_vars ==
    <<external, connected, handler, state, lock, waiters, pc, op, phase,
      body, token, ready_event, state_event, exc, outcome, trace, snapshots,
      pre, nops, nnotifs>>

InitBytes ==
    /\ Constructed
    /\ ~external
    /\ state = GlowState
    /\ snapshots = FALSE
    /\ varint = NoVarint
    /\ hist = NoHist /\ registry = NoRegistry /\ scan = NoScan
    /\ call \in {[NoCall EXCEPT !.data = d] : d \in Buffers}

\* The caller of fn gets ret.
Returns(fn, ret) ==
    /\ call.fn = "none"
    /\ call' = [call EXCEPT !.fn = fn, !.ret = ret]
    /\ UNCHANGED <<client_vars, varint, hist, registry, scan>>

CallParseVarint(start) ==
    /\ call.fn = "none"
    /\ call' = [call EXCEPT !.fn = "parse_varint", !.start = start,
                            !.ret = parse_varint(call.data, start)]
    /\ UNCHANGED <<client_vars, varint, hist, registry, scan>>

CallEncodeVarint(value) ==
    /\ call.fn = "none"
    /\ call' = [call EXCEPT !.fn = "encode_varint", !.value = value,
                            !.ret = encode_varint(value)]
    /\ UNCHANGED <<client_vars, varint, hist, registry, scan>>

CallParseProtobufFields ==
    Returns("parse_protobuf_fields", parse_protobuf_fields(call.data))

CallExtractToken ==
    Returns("extract_token_from_notify", extract_token_from_notify(call.data))

CallParseStateResponse ==
    Returns("parse_state_response", parse_state_response(call.data))

NextBytes ==
    \/ \E start \in 0..(Len(call.data) + 1) : CallParseVarint(start)
    \/ \E value \in EncodeValues : CallEncodeVarint(value)
    \/ CallParseProtobufFields
    \/ CallExtractToken
    \/ CallParseStateResponse

SpecBytes == InitBytes /\ [][NextBytes]_vars

\* C21: parse_varint(data, start) fails (Truncated) exactly when data has no
\* byte below 128 at or after offset start, which includes the empty buffer
\* and a start past the end; encode_varint(value) fails exactly when value is
\* negative.
C21_VarintErrors ==
    /\ call.fn = "parse_varint" =>
          (~call.ret.ok <=>
              \A i \in (call.start + 1)..Len(call.data) : call.data[i] >= 128)
    /\ call.fn = "encode_varint" => (~call.ret.ok <=> call.value < 0)

\* parse_varint failed on a buffer of continuation bytes only.
C21_Witness ==
    /\ call.fn = "parse_varint"
    /\ call.data = <<128, 255>>
    /\ call.start = 0
    /\ ~call.ret.ok

\* A value of a field map made from at most n bytes: an int, or bytes.
IsFieldValue(v, n) ==
    \/ v.t = "int" /\ v.v \in Nat /\ v.b = <<>>
    \/ v.t = "bytes" /\ v.v = 0 /\ Len(v.b) <= n
           /\ \A i \in 1..Len(v.b) : v.b[i] \in 0..255

\* dict[int, list[int | bytes]]: each field number that is present has at
\* least one value.
IsFieldMap(f, n) ==
    \A k \in DOMAIN f :
        /\ k \in Nat
        /\ Len(f[k]) >= 1
        /\ \A i \in 1..Len(f[k]) : IsFieldValue(f[k][i], n)

\* C22: on every buffer parse_protobuf_fields returns a field map,
\* parse_state_response returns a field map or None and
\* extract_token_from_notify returns a non-negative integer or None; none of
\* them fails or runs on for ever.
C22_DecodersAreTotal ==
    /\ call.fn = "parse_protobuf_fields" =>
          IsFieldMap(call.ret, Len(call.data))
    /\ call.fn = "parse_state_response" =>
          \/ call.ret = None
          \/ Len(call.ret) = 1 /\ IsFieldMap(call.ret[1], Len(call.data))
    /\ call.fn = "extract_token_from_notify" =>
          \/ call.ret = None
          \/ Len(call.ret) = 1 /\ call.ret[1] \in Nat

\* parse_protobuf_fields returned what it had collected from a buffer that
\* ends in a truncated tag.
C22_Witness ==
    /\ call.fn = "parse_protobuf_fields"
    /\ call.data = <<8, 1, 255>>
    /\ call.ret = setdefault_append(NoFields, 1, IntVal(1))

(***************************************************************************)
(* parse_protobuf_fields and extract_token_from_notify on buffers made of  *)
(* well-formed fields followed by a tail: nothing, or a malformation (and  *)
(* after it, where there is room, a well-formed field 1 that must not be   *)
(* read).                                                                  *)
(***************************************************************************)
MaxItems == 3

Item(k, val) == [k |-> k, val |-> val]

Items ==
    {Item(1, IntVal(1)), Item(1, IntVal(2)), Item(1, IntVal(300)),
     Item(1, BytesVal(<<7>>)), Item(2, IntVal(5)), Item(2, BytesVal(<<>>)),
     Item(4, BytesVal(<<8, 1>>)), Item(19, BytesVal(<<8, 3>>))}

\* The wire form of one field: the tag (field number, wire type 0 or 2), then
\* the varint, or the length and the bytes.
EncodeItem(it) ==
    IF it.val.t = "int"
    THEN encode_varint(it.k * 8).bytes \o encode_varint(it.val.v).bytes
    ELSE encode_varint(it.k * 8 + 2).bytes
             \o encode_varint(Len(it.val.b)).bytes \o it.val.b

RECURSIVE EncodeItems(_)
EncodeItems(its) ==
    IF its = <<>> THEN <<>>
    ELSE EncodeItem(Head(its)) \o EncodeItems(Tail(its))

\* No tail; a truncated tag; a truncated varint value; a truncated length; a
\* length beyond the end of the buffer; the wire types 5, 1 and 7.
Tails ==
    {<<>>, <<255>>, <<8, 128>>, <<18, 128>>, <<18, 5, 8, 1>>,
     <<13, 8, 1>>, <<9, 8, 1>>, <<15, 8, 1>>}

\* The values of field k among the items, in their order.
ValuesOf(its, k) ==
    LET sel == SelectSeq(its, LAMBDA it : it.k = k)
    IN  [i \in 1..Len(sel) |-> sel[i].val]

\* The field map of a list of items.
FieldsOf(its) ==
    [k \in {its[i].k : i \in 1..Len(its)} |-> ValuesOf(its, k)]

InitFields ==
    /\ Constructed
    /\ ~external
    /\ state = GlowState
    /\ snapshots = FALSE
    /\ varint = NoVarint
    /\ hist = NoHist /\ registry = NoRegistry /\ scan = NoScan
    /\ call \in {[NoCall EXCEPT !.items = its, !.tail = t,
                                !.data = EncodeItems(its) \o t] :
                    its \in UNION {[1..n -> Items] : n \in 0..MaxItems},
                    t \in Tails}

NextFields == CallParseProtobufFields \/ CallExtractToken

SpecFields == InitFields /\ [][NextFields]_vars

TokenItems(its) ==
    {i \in 1..Len(its) : its[i].k = 1 /\ its[i].val.t = "int"}

\* C24: on a buffer of well-formed fields followed by a malformation or by
\* nothing, extract_token_from_notify returns the value of the first field 1
\* of wire type 0, passing over the fields before it (the length-delimited
\* ones, a length-delimited field 1 included, by their length), and None when
\* the well-formed fields hold no such field: the buffer is empty, ends, or
\* goes on with a truncated tag or varint or with another wire type.
C24_FirstVarintFieldOne ==
    call.fn = "extract_token_from_notify" =>
        call.ret =
            IF TokenItems(call.items) = {} THEN None
            ELSE Some(call.items[
                     CHOOSE i \in TokenItems(call.items) :
                         \A j \in TokenItems(call.items) : i <= j].val.v)

\* The token 300 was found behind a length-delimited field whose bytes read
\* as a field 1, and before a second field 1.
C24_Witness ==
    /\ call.fn = "extract_token_from_notify"
    /\ call.items = <<Item(4, BytesVal(<<8, 1>>)), Item(1, IntVal(300)),
                      Item(1, IntVal(2))>>
    /\ call.ret = Some(300)

(***************************************************************************)
(* The packet builders of protocol.py, each called once.                   *)
(***************************************************************************)
BuildTokens == {0, 1, 42, 127, 128, 300, 16384, 65535, 2097152, 2147483647}

\* The fixed bodies, the empty body, a brightness body and a body whose
\* length takes two bytes.
BuildBodies ==
    {ACTION_BODY_ON, ACTION_BODY_OFF, ACTION_BODY_PAUSE, ACTION_BODY_RESUME,
     QUERY_STATE_BODY, <<>>, build_brightness_body(80, 900000),
     [i \in 1..200 |-> i]}

BuildPcts == {0, 60, 70, 80, 90, 100, 127, 128, 255}

BuildMs == {0, 127, 900000, 1800000, 2700000, 3600000, 5400000}

InitBuild ==
    /\ Constructed
    /\ ~external
    /\ state = GlowState
    /\ snapshots = FALSE
    /\ varint = NoVarint
    /\ call = NoCall
    /\ hist = NoHist /\ registry = NoRegistry /\ scan = NoScan

CallBuildActionPacket(tok, action_body) ==
    /\ call.fn = "none"
    /\ call' = [call EXCEPT !.fn = "build_action_packet",
                            !.args = <<tok, action_body>>,
                            !.ret = build_action_packet(tok, action_body)]
    /\ UNCHANGED <<client_vars, varint, hist, registry, scan>>

CallBuildBrightnessBody(brightness_pct, dimming_time_ms) ==
    /\ call.fn = "none"
    /\ call' = [call EXCEPT !.fn = "build_brightness_body",
                            !.args = <<brightness_pct, dimming_time_ms>>,
                            !.ret = build_brightness_body(brightness_pct,
                                                          dimming_time_ms)]
    /\ UNCHANGED <<client_vars, varint, hist, registry, scan>>

NextBuild ==
    \/ \E tok \in BuildTokens, action_body \in BuildBodies :
           CallBuildActionPacket(tok, action_body)
    \/ \E brightness_pct \in BuildPcts, dimming_time_ms \in BuildMs :
           CallBuildBrightnessBody(brightness_pct, dimming_time_ms)

SpecBuild == InitBuild /\ [][NextBuild]_vars

\* p is 08 01 10 <varint tok> 22 <varint len(body)> <body>, where tv is the
\* varint read at offset 3 and lv the varint read one byte after its end.
PacketLayout(p, tok, action_body, tv, lv) ==
    /\ SubSeq(p, 1, 3) = <<8, 1, 16>>
    /\ tv.ok /\ tv.value = tok
    /\ p[tv.pos + 1] = 34
    /\ lv.ok /\ lv.value = Len(action_body)
    /\ SubSeq(p, lv.pos + 1, Len(p)) = action_body

\* The three fields of an action packet.
PacketFields(tok, action_body) ==
    [k \in {1, 2, 4} |->
        CASE k = 1 -> <<IntVal(1)>>
          [] k = 2 -> <<IntVal(tok)>>
          [] k = 4 -> <<BytesVal(action_body)>>]

\* C25: build_action_packet(token, body) is 08 01 10 <varint token> 22
\* <varint len(body)> <body>, and parse_protobuf_fields reads it back as
\* field 1 = [1], field 2 = [token], field 4 = [body] and nothing else.
C25_ActionPacket ==
    call.fn = "build_action_packet" =>
        /\ PacketLayout(call.ret, call.args[1], call.args[2],
                        parse_varint(call.ret, 3),
                        parse_varint(call.ret,
                                     parse_varint(call.ret, 3).pos + 1))
        /\ parse_protobuf_fields(call.ret)
               = PacketFields(call.args[1], call.args[2])
        /\ (call.args = <<42, ACTION_BODY_ON>>) =>
               call.ret = <<8, 1, 16, 42, 34, 4>> \o ACTION_BODY_ON

\* A packet was built with a token of two bytes and a body whose length
\* takes two bytes.
C25_Witness ==
    /\ call.fn = "build_action_packet"
    /\ call.args[1] = 300
    /\ Len(call.args[2]) = 200
    /\ SubSeq(call.ret, 1, 8) = <<8, 1, 16, 172, 2, 34, 200, 1>>

\* b is 92 01 <varint len(inner)> <inner>, where lv is the varint read at
\* offset 2.
BodyLayout(b, inner, lv) ==
    /\ SubSeq(b, 1, 2) = <<146, 1>>
    /\ lv.ok /\ lv.value = Len(inner)
    /\ SubSeq(b, lv.pos + 1, Len(b)) = inner

\* inner is 10 <varint pct> 18 <varint ms>, where pv is the varint read at
\* offset 1 and mv the varint read one byte after its end.
InnerLayout(inner, brightness_pct, dimming_time_ms, pv, mv) ==
    /\ inner[1] = 16
    /\ pv.ok /\ pv.value = brightness_pct
    /\ inner[pv.pos + 1] = 24
    /\ mv.ok /\ mv.value = dimming_time_ms
    /\ mv.pos = Len(inner)

\* The content of field 18 of a brightness body: what follows the tag and the
\* length varint.
InnerOf(b) == SubSeq(b, parse_varint(b, 2).pos + 1, Len(b))

\* C26: build_brightness_body(pct, ms) is 92 01, the varint length of the
\* inner content, then 10 <varint pct> 18 <varint ms>; (60, 900000) gives
\* 92 01 06 10 3c 18 a0 f7 36 and (100, 900000) gives 92 01 06 10 64 18 a0 f7
\* 36; parse_protobuf_fields reads the body back as one field 18 whose bytes
\* hold the fields 2 = [pct] and 3 = [ms].
C26_BrightnessBody ==
    call.fn = "build_brightness_body" =>
        /\ BodyLayout(call.ret, InnerOf(call.ret), parse_varint(call.ret, 2))
        /\ InnerLayout(InnerOf(call.ret), call.args[1], call.args[2],
                       parse_varint(InnerOf(call.ret), 1),
                       parse_varint(InnerOf(call.ret),
                           parse_varint(InnerOf(call.ret), 1).pos + 1))
        /\ call.args = <<60, 900000>> =>
               call.ret = <<146, 1, 6, 16, 60, 24, 160, 247, 54>>
        /\ call.args = <<100, 900000>> =>
               call.ret = <<146, 1, 6, 16, 100, 24, 160, 247, 54>>
        /\ DOMAIN parse_protobuf_fields(call.ret) = {18}
        /\ parse_protobuf_fields(call.ret)[18]
               = <<BytesVal(InnerOf(call.ret))>>
        /\ DOMAIN parse_protobuf_fields(InnerOf(call.ret)) = {2, 3}
        /\ parse_protobuf_fields(InnerOf(call.ret))[2]
               = <<IntVal(call.args[1])>>
        /\ parse_protobuf_fields(InnerOf(call.ret))[3]
               = <<IntVal(call.args[2])>>

\* The body for 100 % and 15 minutes was built.
C26_Witness ==
    /\ call.fn = "build_brightness_body"
    /\ call.args = <<100, 900000>>
    /\ call.ret = <<146, 1, 6, 16, 100, 24, 160, 247, 54>>

(***************************************************************************)
(* parse_state_response on notifications with a token and up to MaxOcc     *)
(* occurrences of field 4, each a varint or a message with up to MaxOcc    *)
(* occurrences of field 19, each a varint or a state body.                 *)
(***************************************************************************)
MaxOcc == 2

\* An occurrence of a field: a varint, or bytes that are the wire form of
\* sub (a list of items, or a list of occurrences).
Occ(t, sub) == [t |-> t, sub |-> sub]

StateBodies ==
    {<<Item(1, IntVal(1))>>, <<Item(1, IntVal(3)), Item(3, IntVal(0))>>}

Occs19 == {Occ("int", <<>>)} \cup {Occ("bytes", b) : b \in StateBodies}

Occs4 ==
    {Occ("int", <<>>)}
    \cup {Occ("bytes", inner) :
            inner \in UNION {[1..n -> Occs19] : n \in 0..MaxOcc}}

EncodeOcc19(o) ==
    IF o.t = "int" THEN EncodeItem(Item(STATE_RESPONSE_FIELD, IntVal(5)))
    ELSE EncodeItem(Item(STATE_RESPONSE_FIELD,
                         BytesVal(EncodeItems(o.sub))))

RECURSIVE EncodeOccs19(_)
EncodeOccs19(os) ==
    IF os = <<>> THEN <<>>
    ELSE EncodeOcc19(Head(os)) \o EncodeOccs19(Tail(os))

EncodeOcc4(o) ==
    IF o.t = "int" THEN EncodeItem(Item(4, IntVal(7)))
    ELSE EncodeItem(Item(4, BytesVal(EncodeOccs19(o.sub))))

RECURSIVE EncodeOccs4(_)
EncodeOccs4(os) ==
    IF os = <<>> THEN <<>>
    ELSE EncodeOcc4(Head(os)) \o EncodeOccs4(Tail(os))

InitStateResponse ==
    /\ Constructed
    /\ ~external
    /\ state = GlowState
    /\ snapshots = FALSE
    /\ varint = NoVarint
    /\ hist = NoHist /\ registry = NoRegistry /\ scan = NoScan
    /\ call \in {[NoCall EXCEPT !.items = os,
                                !.data = <<8, 42>> \o EncodeOccs4(os)] :
                    os \in UNION {[1..n -> Occs4] : n \in 0..MaxOcc}}

NextStateResponse == CallParseStateResponse

SpecStateResponse == InitStateResponse /\ [][NextStateResponse]_vars

\* What the last occurrence of a list gives: None when there is none or when
\* it is a varint, else Some(what its bytes were made from).
LastSub(os) ==
    IF os = <<>> THEN None
    ELSE IF os[Len(os)].t # "bytes" THEN None
    ELSE Some(os[Len(os)].sub)

\* C27: parse_state_response returns the fields of the last occurrence of
\* field 19 inside the last occurrence of field 4, and None when either field
\* is missing or its last occurrence is not length-delimited, whatever the
\* earlier occurrences are.
C27_LastOccurrence ==
    call.fn = "parse_state_response" =>
        call.ret =
            IF LastSub(call.items) = None THEN None
            ELSE IF LastSub(LastSub(call.items)[1]) = None THEN None
            ELSE Some(FieldsOf(LastSub(LastSub(call.items)[1])[1]))

\* A well-formed field 4 with a state body was followed by a field 4 that is
\* a varint: nothing was returned.
C27_Witness ==
    /\ call.fn = "parse_state_response"
    /\ Len(call.items) = 2
    /\ call.items[1] = Occ("bytes", <<Occ("bytes", <<Item(1, IntVal(1))>>)>>)
    /\ call.items[2] = Occ("int", <<>>)
    /\ call.ret = None

\* The raw battery value of a parsed field-19 body: inner field 2 of
\* sub-field 7 when the one is bytes and the other a varint, else None.
battery_raw_of(resp) ==
    IF resp = None THEN None
    ELSE IF ~FirstIs(resp[1], 7, "bytes") THEN None
    ELSE IF ~FirstIs(parse_protobuf_fields(resp[1][7][1].b), 2, "int")
    THEN None
    ELSE Some(parse_protobuf_fields(resp[1][7][1].b)[2][1].v)

BatteryRaw(data) == battery_raw_of(parse_state_response(data))

\* C28: decoding a state notification whose sub-field 7 holds a varint inner
\* field 2 sets the battery level to 25, 50, 75 or 100 % for the raw values
\* 3, 4, 5, 6 and to unknown for any other raw value; a notification without
\* sub-field 7 or without its inner field 2 leaves the battery level as it
\* was.
C28_BatteryLevel ==
    [][\A data \in DecodeInputs :
          (/\ state'.raw_state = Some(data)
           /\ state' = parse_state_notification(state, data).state) =>
              IF BatteryRaw(data) = None
              THEN state'.battery_level = state.battery_level
              ELSE IF BatteryRaw(data)[1] \in {3, 4, 5, 6}
              THEN /\ state'.battery_level # None
                   /\ percentage(state'.battery_level[1])
                          = CASE BatteryRaw(data)[1] = 3 -> 25
                              [] BatteryRaw(data)[1] = 4 -> 50
                              [] BatteryRaw(data)[1] = 5 -> 75
                              [] BatteryRaw(data)[1] = 6 -> 100
              ELSE state'.battery_level = None]_vars

\* The battery level is 25 % and the notification decoded last had a
\* sub-field 7 without inner field 2.
C28_Witness ==
    /\ state.battery_level = Some(3)
    /\ percentage(state.battery_level[1]) = 25
    /\ state.raw_state = Some(state_notification(42, <<58, 2, 8, 6>>))

\* The semantic Device State: every field but the raw notification.
Semantic(s) ==
    <<s.is_on, s.dimming_time_minutes, s.configured_dimming_time_minutes,
      s.is_paused, s.brightness_level, s.battery_level>>

\* C29: sub-field 8 never influences the semantic state: when a notification
\* is decoded, any notification that differs from it only in sub-field 8,
\* decoded from the same prior state, gives the same power, remaining time,
\* configured duration, paused flag, brightness and battery level.
C29_SubField8Ignored ==
    [][\A b \in Sub8Bases : \A t1, t2 \in Sub8Tails :
          (/\ state'.raw_state = Some(state_notification(42, b \o t1))
           /\ state' = parse_state_notification(
                           state, state_notification(42, b \o t1)).state) =>
              Semantic(state')
                  = Semantic(parse_state_notification(
                                 state,
                                 state_notification(42, b \o t2)).state)]_vars

\* A notification with battery raw 3 and sub-field 8 = 6 was decoded, and the
\* battery level is 25 %.
C29_Witness ==
    /\ state.raw_state
           = Some(state_notification(42, <<58, 2, 16, 3>> \o <<64, 6>>))
    /\ state.battery_level = Some(3)

\* C30: query_state leaves its state wait before the state-response timeout
\* only if a state notification delivered after the query packet was written
\* has been decoded; a state notification delivered earlier in the exchange
\* does not end the wait.
C30_StateWaitNeedsLaterNotification ==
    [][\A t \in Tasks :
          (pc[t] = "await_state" /\ pc'[t] # "await_state"
               /\ state_event[t]) =>
              \E i \in Positions(LastExchange(trace[t]), "notify") :
                  /\ i > WritePos(LastExchange(trace[t]), 2)
                  /\ parse_state_response(LastExchange(trace[t])[i].d)
                         # None]_vars

\* C31: in every reachable Device State, power known to be off implies that
\* the paused flag is not true.
C31_OffIsNeverPaused ==
    state.is_on = Some(FALSE) => state.is_paused # Some(TRUE)

(***************************************************************************)
(* Progress: every transport call of a task returns (or fails), every     *)
(* timer of a wait fires, a free lock is handed to its first waiter, and   *)
(* the caller of a finished operation takes its result.                    *)
(***************************************************************************)
TaskStep(t) ==
    \/ Collect(t)
    \/ LockGranted(t)
    \/ \E ok \in BOOLEAN : EstablishDone(t, ok)
    \/ \E ok \in BOOLEAN : ConnectDone(t, ok)
    \/ \E ok \in BOOLEAN : StartNotifyDone(t, ok)
    \/ \E ok \in BOOLEAN : WriteHandshakeDone(t, ok)
    \/ ReadyDone(t)
    \/ HandshakeTimeout(t)
    \/ \E ok \in BOOLEAN : WriteActionDone(t, ok)
    \/ StateDone(t)
    \/ StateTimeout(t)
    \/ DisconnectDone(t)

\* The operations and notifications followed for progress: two exchanges in
\* one operation, a single exchange, the state wait, and an argument that is
\* rejected before any exchange.
LiveOps ==
    {Op("turn_on", Some(80)), Op("turn_off", None), Op("query_state", None),
     Op("set_brightness", Some(50))}

LiveNotifications ==
    {ready_notification(300), READY_MARKER,
     state_notification(42, StateOn) \o READY_MARKER}

NextLive ==
    \/ \E t \in Tasks : Collect(t)
    \/ \E t \in Tasks, o \in LiveOps : Invoke(t, o)
    \/ \E t \in Tasks : LockGranted(t)
    \/ \E t \in Tasks, ok \in BOOLEAN : EstablishDone(t, ok)
    \/ \E t \in Tasks, ok \in BOOLEAN : ConnectDone(t, ok)
    \/ \E t \in Tasks, ok \in BOOLEAN : StartNotifyDone(t, ok)
    \/ \E t \in Tasks, ok \in BOOLEAN : WriteHandshakeDone(t, ok)
    \/ \E t \in Tasks : ReadyDone(t)
    \/ \E t \in Tasks : HandshakeTimeout(t)
    \/ \E t \in Tasks, ok \in BOOLEAN : WriteActionDone(t, ok)
    \/ \E t \in Tasks : StateDone(t)
    \/ \E t \in Tasks : StateTimeout(t)
    \/ \E t \in Tasks : DisconnectDone(t)
    \/ \E c \in Conns, data \in LiveNotifications : Notify(c, data)

SpecLive ==
    Init /\ [][NextLive]_vars /\ \A t \in Tasks : WF_vars(TaskStep(t))

\* C32: every invoked operation eventually finishes, with success or with an
\* error; when an operation that ran an exchange finishes, the lock is free,
\* and no finished operation holds it; and an operation queued on the lock
\* eventually acquires it, also behind an exchange that failed.
C32_OperationsFinish ==
    /\ \A t \in Tasks : (pc[t] # "idle") ~> (pc[t] = "done")
    /\ \A t \in Tasks : (pc[t] = "lock") ~> (lock = Some(t))
    /\ [](\A t \in Tasks :
              pc[t] = "done" =>
                  /\ lock # Some(t)
                  /\ Positions(trace[t], "begin") # {} => lock = None)

\* An operation fails with HandshakeTimeoutError; the lock is free and the
\* other task is queued behind it.
C32_Witness ==
    /\ pc[1] = "done" /\ outcome[1] = "HandshakeTimeoutError"
    /\ lock = None
    /\ waiters = <<2>>

(***************************************************************************)
(* turn_on() and turn_off() invoked by two tasks on one client, with the   *)
(* packets written to the transport and the operations returned recorded   *)
(* in the order they happened.                                             *)
(***************************************************************************)
ConcurrentOps == {Op("turn_on", None), Op("turn_off", None)}

InitConcurrent ==
    /\ Constructed /\ state = GlowState /\ snapshots = FALSE
    /\ varint = NoVarint /\ call = NoCall
    /\ hist = [NoHist EXCEPT !.on = TRUE]
    /\ registry = NoRegistry /\ scan = NoScan

NextConcurrent ==
    \/ \E t \in Tasks : Collect(t)
    \/ \E t \in Tasks, o \in ConcurrentOps : Invoke(t, o)
    \/ \E t \in Tasks : LockGranted(t)
    \/ \E t \in Tasks, ok \in BOOLEAN : EstablishDone(t, ok)
    \/ \E t \in Tasks, ok \in BOOLEAN : ConnectDone(t, ok)
    \/ \E t \in Tasks, ok \in BOOLEAN : StartNotifyDone(t, ok)
    \/ \E t \in Tasks, ok \in BOOLEAN : WriteHandshakeDone(t, ok)
    \/ \E t \in Tasks : ReadyDone(t)
    \/ \E t \in Tasks : HandshakeTimeout(t)
    \/ \E t \in Tasks, ok \in BOOLEAN : WriteActionDone(t, ok)
    \/ \E t \in Tasks : DisconnectDone(t)
    \/ \E c \in Conns, data \in Notifications : Notify(c, data)

SpecConcurrent == InitConcurrent /\ [][NextConcurrent]_vars

\* The action packets among the packets written, in order.
ActionPackets(written) ==
    SelectSeq(written, LAMBDA p : p # RECONNECT_PACKET)

\* The action body (field 4) of an action packet.
ActionBodyOf(p) == parse_protobuf_fields(p)[4][1].b

\* turn_on() and turn_off() have both returned normally, and no notification
\* changed Device State.
BothSucceeded(h) ==
    /\ Len(h.returned) = 2
    /\ \A i \in 1..2 : h.returned[i].outcome = "ok"
    /\ {h.returned[i].op : i \in 1..2} = ConcurrentOps
    /\ ~h.notified

\* C33: when turn_on() and turn_off() were invoked on one client, both
\* succeeded and no state notification arrived, the local power after both
\* have returned is the power commanded by the action packet written last,
\* whichever of the two took the lock first (no third operation invoked).
C33_LastWriterWins ==
    (nops = 2 /\ BothSucceeded(hist)) =>
        /\ Len(ActionPackets(hist.written)) = 2
        /\ state.is_on
               = Some(ActionBodyOf(ActionPackets(hist.written)[2])
                          = ACTION_BODY_ON)

\* turn_off() was invoked first and turn_on() while it was running (on the
\* second task); both succeeded, and the power is on.
C33_Witness ==
    /\ BothSucceeded(hist)
    /\ hist.returned[1] = [task |-> 1, op |-> Op("turn_off", None),
                           outcome |-> "ok"]
    /\ hist.returned[2].task = 2
    /\ ActionBodyOf(ActionPackets(hist.written)[1]) = ACTION_BODY_OFF
    /\ state.is_on = Some(TRUE)

(***************************************************************************)
(* handshake() next to a command: the connectivity test and turn_on() on   *)
(* two tasks of one client.                                                *)
(***************************************************************************)
HandshakeOps == {Op("handshake", None), Op("turn_on", None)}

NextHandshake ==
    \/ \E t \in Tasks : Collect(t)
    \/ \E t \in Tasks, o \in HandshakeOps : Invoke(t, o)
    \/ \E t \in Tasks : LockGranted(t)
    \/ \E t \in Tasks, ok \in BOOLEAN : EstablishDone(t, ok)
    \/ \E t \in Tasks, ok \in BOOLEAN : ConnectDone(t, ok)
    \/ \E t \in Tasks, ok \in BOOLEAN : StartNotifyDone(t, ok)
    \/ \E t \in Tasks, ok \in BOOLEAN : WriteHandshakeDone(t, ok)
    \/ \E t \in Tasks : ReadyDone(t)
    \/ \E t \in Tasks : HandshakeTimeout(t)
    \/ \E t \in Tasks, ok \in BOOLEAN : WriteActionDone(t, ok)
    \/ \E t \in Tasks : DisconnectDone(t)
    \/ \E t \in Tasks, ok \in BOOLEAN : HandshakeEstablishDone(t, ok)
    \/ \E t \in Tasks, ok \in BOOLEAN : HandshakeStartNotifyDone(t, ok)
    \/ \E t \in Tasks, ok \in BOOLEAN : HandshakeWriteDone(t, ok)
    \/ \E t \in Tasks : HandshakeReadyDone(t)
    \/ \E t \in Tasks : HandshakeWaitTimeout(t)
    \/ \E t \in Tasks : HandshakeDisconnectDone(t)
    \/ \E c \in Conns, data \in Notifications : Notify(c, data)

SpecHandshake == Init /\ [][NextHandshake]_vars

\* Task t's handshake() is in its subscribe / write / wait sequence.
InHandshakeSession(t) ==
    pc[t] \in {"hs_start_notify", "hs_write", "hs_await_ready"}

\* Task t's command exchange is between its subscription and the end of its
\* disconnect.
InCommandSession(t) ==
    pc[t] \in {"start_notify", "write_handshake", "await_ready",
               "write_action", "await_state", "disconnect"}

\* C34: a client never has more than one transport session active: no
\* handshake() is in its subscribe / write / wait sequence while a command
\* exchange of the same client is between subscribe and disconnect.
C34_OneSessionAtATime ==
    \A t, u \in Tasks :
        t # u => ~(InHandshakeSession(t) /\ InCommandSession(u))

\* The step is one of task t's handshake(), or delivers a notification to its
\* closure.
HandshakeStep(t) ==
    /\ op[t].name = "handshake" \/ op'[t].name = "handshake"
    /\ pc'[t] # pc[t] \/ trace'[t] # trace[t]

\* C35: handshake() writes only the handshake packet, never an action packet;
\* it succeeds as soon as a notification contains the ready marker, with or
\* without a token; it never changes Device State and never invokes the
\* observers; and it disconnects its connection exactly once, on success and
\* on HandshakeTimeoutError.
C35_HandshakeFrame ==
    [][\A t \in Tasks :
          HandshakeStep(t) =>
              /\ state' = state
              /\ op'[t].name = "handshake" =>
                     /\ \A i \in Positions(trace'[t], "write") :
                            trace'[t][i].d = RECONNECT_PACKET
                     /\ Positions(trace'[t], "fire") = {}
              /\ Delivered(trace[t], trace'[t]) =>
                     ready_event'[t]
                         = (ready_event[t]
                                \/ payload_contains_ready_marker(
                                       Newest(trace'[t]).d))
              /\ (pc[t] = "hs_await_ready" /\ ready_event[t]
                      /\ pc'[t] # pc[t]) =>
                     (pc'[t] = "hs_disconnect" /\ exc'[t] = "none")
              /\ (pc[t] = "hs_disconnect" /\ exc[t] = "none"
                      /\ pc'[t] # pc[t]) =>
                     outcome'[t] = "ok"
              /\ (pc'[t] = "done"
                      /\ outcome'[t] \in {"ok", "HandshakeTimeoutError"}) =>
                     Cardinality(Positions(trace'[t], "disconnect")) = 1]_vars

\* handshake() succeeded on the ready marker alone (no token field), with one
\* write and one disconnect, while a client had been supplied.
C35_Witness ==
    \E t \in Tasks :
        /\ op[t].name = "handshake" /\ pc[t] = "done" /\ outcome[t] = "ok"
        /\ external
        /\ \E i \in Positions(trace[t], "notify") :
               trace[t][i].d = READY_MARKER
        /\ \A i \in Positions(trace[t], "notify") :
               extract_token_from_notify(trace[t][i].d) = None
        /\ Cardinality(Positions(trace[t], "write")) = 1
        /\ Cardinality(Positions(trace[t], "disconnect")) = 1

\* C36: Device State is modified only while an operation of the client is in
\* progress: a step taken while no operation is running (such as a
\* notification delivered after an exchange on a supplied connection has
\* completed) leaves Device State as it was.
C36_StateOnlyDuringOperations ==
    [][(\A t \in Tasks : pc[t] = "idle") => state' = state]_vars

(***************************************************************************)
(* device.py: the observers.  register_callback, the unregister closures   *)
(* it returned, and _fire_callbacks, on the list _callbacks alone.         *)
(***************************************************************************)
\* Registrations in one behaviour, and calls of one unregister closure.
MaxRegs == 3
MaxCalls == 2

\* The callables a caller registers; the same one may be registered twice.
Observers == {"f", "g"}

\* list.remove(x): the list without its first item equal to x.
RemoveFirst(seq, x) ==
    LET i == CHOOSE i \in 1..Len(seq) :
                 seq[i] = x /\ \A j \in 1..(i - 1) : seq[j] # x
    IN  SubSeq(seq, 1, i - 1) \o SubSeq(seq, i + 1, Len(seq))

\* register_callback(callback): appended to _callbacks; the closure returned
\* is kept with the number of times it was called.
RegisterCallback(callback) ==
    /\ Len(registry.handles) < MaxRegs
    /\ registry' = [registry EXCEPT
                       !.callbacks = Append(@, callback),
                       !.handles = Append(@, [callback |-> callback,
                                              calls |-> 0]),
                       !.raised = FALSE]
    /\ UNCHANGED <<client_vars, varint, call, hist, scan>>

\* _unregister(): "self._callbacks.remove(callback)", which raises ValueError
\* when the list holds no item equal to callback.
Unregister(h) ==
    /\ h \in 1..Len(registry.handles)
    /\ registry.handles[h].calls < MaxCalls
    /\ registry' =
           IF \E i \in 1..Len(registry.callbacks) :
                  registry.callbacks[i] = registry.handles[h].callback
           THEN [registry EXCEPT
                    !.callbacks = RemoveFirst(@, registry.handles[h].callback),
                    !.handles[h].calls = @ + 1,
                    !.raised = FALSE]
           ELSE [registry EXCEPT !.handles[h].calls = @ + 1,
                                 !.raised = TRUE]
    /\ UNCHANGED <<client_vars, varint, call, hist, scan>>

\* _fire_callbacks(), as an operation calls it: every item of _callbacks is
\* called, in list order.
FireCallbacks ==
    /\ registry' = [registry EXCEPT !.invoked = registry.callbacks,
                                    !.raised = FALSE]
    /\ UNCHANGED <<client_vars, varint, call, hist, scan>>

NextCallbacks ==
    \/ \E callback \in Observers : RegisterCallback(callback)
    \/ \E h \in 1..MaxRegs : Unregister(h)
    \/ FireCallbacks

SpecCallbacks == Init /\ [][NextCallbacks]_vars

\* The observers whose unregister closure has not been called, in
\* registration order.
StillRegistered(handles) ==
    LET live == SelectSeq(handles, LAMBDA hd : hd.calls = 0)
    IN  [i \in 1..Len(live) |-> live[i].callback]

\* C37: register_callback adds the observer and returns an unregister
\* function; once that function has been called, a later operation does not
\* invoke its observer and invokes every other registered observer, in
\* registration order; a second call of the function fails with an error and
\* leaves the remaining observers registered.
C37_UnregisterOnce ==
    [][/\ Len(registry'.handles) > Len(registry.handles) =>
              registry'.callbacks
                  = Append(registry.callbacks,
                           registry'.handles[Len(registry'.handles)].callback)
       /\ registry'.invoked # registry.invoked =>
              registry'.invoked = StillRegistered(registry.handles)
       /\ \A h \in 1..Len(registry.handles) :
              (registry.handles[h].calls >= 1
                   /\ registry'.handles[h].calls
                          > registry.handles[h].calls) =>
                  /\ registry'.raised
                  /\ registry'.callbacks = registry.callbacks]_vars

\* C38: parse_protobuf_fields returns an empty field map whenever the payload
\* is malformed (here: well-formed fields followed by a malformed tail), also
\* when well-formed fields precede the malformed part.
C38_MalformedGivesEmpty ==
    (call.fn = "parse_protobuf_fields" /\ call.tail # <<>>) =>
        call.ret = NoFields

\* The first integer-typed value that a field map records for field k, or
\* None when it records none.
FirstInt(fields, k) ==
    IF k \notin DOMAIN fields THEN None
    ELSE IF \A i \in 1..Len(fields[k]) : fields[k][i].t # "int" THEN None
    ELSE Some(fields[k][CHOOSE i \in 1..Len(fields[k]) :
                            /\ fields[k][i].t = "int"
                            /\ \A j \in 1..(i - 1) :
                                   fields[k][j].t # "int"].v)

\* C39: for every payload, extract_token_from_notify(payload) is the first
\* integer-typed value that parse_protobuf_fields(payload) records for field
\* 1, and it is absent exactly when parse_protobuf_fields(payload) records no
\* integer value for field 1.
C39_TokenIsFirstIntOfFieldOne ==
    call.fn = "extract_token_from_notify" =>
        call.ret = FirstInt(parse_protobuf_fields(call.data), 1)

\* Field 1 arrived as bytes and then as the varint 300, before a malformed
\* tail, and 300 was extracted.
C39_Witness ==
    /\ call.fn = "extract_token_from_notify"
    /\ call.items = <<Item(1, BytesVal(<<7>>)), Item(1, IntVal(300))>>
    /\ call.tail = <<18, 5, 8, 1>>
    /\ call.ret = Some(300)
    /\ parse_protobuf_fields(call.data)[1] = <<BytesVal(<<7>>), IntVal(300)>>

(***************************************************************************)
(* discovery.py: is_casper_glow and one iteration of discover_glows.       *)
(* Strings are sequences of characters, so that lower() and startswith()   *)
(* are computed.                                                           *)
(***************************************************************************)
\* Advertisements the scanner reports in one behaviour.
MaxDetections == 3

\* const.py: SERVICE_UUID and DEVICE_NAME_PREFIX
SERVICE_UUID ==
    <<"9", "b", "b", "3", "0", "0", "0", "1", "-", "f", "e", "e",
      "9", "-", "4", "c", "2", "4", "-", "8", "3", "6", "1", "-",
      "4", "4", "3", "b", "5", "b", "7", "c", "8", "8", "f", "6">>
DEVICE_NAME_PREFIX == <<"J", "a", "r">>

\* str.lower() on the characters that occur in the model.
LowerChar(c) ==
    CASE c = "A" -> "a" [] c = "B" -> "b" [] c = "C" -> "c"
      [] c = "D" -> "d" [] c = "E" -> "e" [] c = "F" -> "f"
      [] c = "J" -> "j" [] c = "G" -> "g" [] c = "O" -> "o"
      [] OTHER -> c

Lower(str) == [i \in 1..Len(str) |-> LowerChar(str[i])]

\* str.upper() on the hexadecimal letters, to build the inputs.
UpperChar(c) ==
    CASE c = "a" -> "A" [] c = "b" -> "B" [] c = "c" -> "C"
      [] c = "d" -> "D" [] c = "e" -> "E" [] c = "f" -> "F"
      [] OTHER -> c

Upper(str) == [i \in 1..Len(str) |-> UpperChar(str[i])]

\* name.startswith(prefix)
StartsWith(name, prefix) ==
    /\ Len(name) >= Len(prefix)
    /\ SubSeq(name, 1, Len(prefix)) = prefix

\* "adv.local_name or device.name or ''": None and the empty string are
\* falsy.
name_of(device, adv) ==
    IF adv.local_name # None /\ adv.local_name # Some(<<>>)
    THEN adv.local_name[1]
    ELSE IF device.name # None /\ device.name # Some(<<>>)
    THEN device.name[1]
    ELSE <<>>

\* is_casper_glow(device, adv)
is_casper_glow(device, adv) ==
    IF /\ adv.service_uuids # <<>>
       /\ \E i \in 1..Len(adv.service_uuids) :
              Lower(adv.service_uuids[i]) = Lower(SERVICE_UUID)
    THEN TRUE
    ELSE StartsWith(name_of(device, adv), DEVICE_NAME_PREFIX)

\* A callback that forgets to record the address.
on_detection_unseen(sc, device, adv) ==
    IF device.address \notin sc.seen /\ is_casper_glow(device, adv)
    THEN [sc EXCEPT !.queue = Append(@, device)]
    ELSE sc

\* _on_detection(device, adv)
on_detection(sc, device, adv) ==
    IF device.address \notin sc.seen /\ is_casper_glow(device, adv)
    THEN [sc EXCEPT !.seen = @ \cup {device.address},
                    !.queue = Append(@, device)]
    ELSE sc

\* The finally clause: "await scanner.stop()", issued.
scanner_stop(sc, cause) ==
    [sc EXCEPT !.pc = "stopping", !.stops = @ + 1, !.cause = cause]

BLEDevice(address, name) == [address |-> address, name |-> name]

AdvertisementData(local_name, service_uuids) ==
    [local_name |-> local_name, service_uuids |-> service_uuids]

Detection(device, adv) == [device |-> device, adv |-> adv]

JarGlow == <<"J", "a", "r", "G", "l", "o", "w">>
OtherName == <<"O", "t", "h", "e", "r">>
OtherUuid == <<"1", "8", "0", "f">>

\* What the scanner reports (tests/test_discovery.py builds the same shapes):
\* no name at all; the device name; the local name; a local name that does
\* not match in front of a device name that does; the service UUID in upper
\* case; another UUID; an empty local name; a prefix in lower case.
Detections ==
    {Detection(BLEDevice("A", None), AdvertisementData(None, <<>>)),
     Detection(BLEDevice("A", Some(JarGlow)), AdvertisementData(None, <<>>)),
     Detection(BLEDevice("A", Some(OtherName)),
               AdvertisementData(Some(DEVICE_NAME_PREFIX), <<>>)),
     Detection(BLEDevice("B", Some(JarGlow)),
               AdvertisementData(Some(<<"J", "a">>), <<>>)),
     Detection(BLEDevice("B", None),
               AdvertisementData(Some(<<>>),
                                 <<OtherUuid, Upper(SERVICE_UUID)>>)),
     Detection(BLEDevice("B", Some(OtherName)),
               AdvertisementData(None, <<OtherUuid>>)),
     Detection(BLEDevice("A", Some(JarGlow)),
               AdvertisementData(Some(<<>>), <<>>)),
     Detection(BLEDevice("B", None),
               AdvertisementData(Some(<<"j", "a", "r">>), <<>>))}

scan_unchanged == UNCHANGED <<client_vars, varint, call, hist, registry>>

\* discover_glows is iterated for the first time: queue and seen are fresh and
\* "await scanner.start()" is issued.
Discover ==
    /\ scan.pc = "idle"
    /\ scan' = [scan EXCEPT !.pc = "starting"]
    /\ scan_unchanged

\* scanner.start() returns (the loop waits for the queue) or fails (before the
\* try block: the scanner is not stopped).
ScannerStartDone(ok) ==
    /\ scan.pc = "starting"
    /\ scan' = IF ok THEN [scan EXCEPT !.pc = "waiting"]
               ELSE [scan EXCEPT !.pc = "ended", !.cause = "start_failed"]
    /\ scan_unchanged

\* The running scanner reports an advertisement: _on_detection is called.
Detect(d) ==
    /\ scan.pc \in {"waiting", "yielded", "stopping"}
    /\ Len(scan.detected) < MaxDetections
    /\ scan' = [on_detection(scan, d.device, d.adv) EXCEPT
                   !.detected = Append(scan.detected, d)]
    /\ scan_unchanged

\* wait_for(queue.get()) returns a device, which is yielded.
QueueGet ==
    /\ scan.pc = "waiting"
    /\ scan.queue # <<>>
    /\ scan' = [scan EXCEPT !.queue = Tail(@),
                            !.yielded = Append(@, Head(scan.queue)),
                            !.pc = "yielded"]
    /\ scan_unchanged

\* The consumer asks for the next device: the loop goes round, with time left
\* (it waits again) or without (it breaks).
AskNext(left) ==
    /\ scan.pc = "yielded"
    /\ scan' = IF left THEN [scan EXCEPT !.pc = "waiting"]
               ELSE scanner_stop(scan, "deadline")
    /\ scan_unchanged

\* wait_for(queue.get()) times out: TimeoutError, break.
Deadline ==
    /\ scan.pc = "waiting"
    /\ scan' = scanner_stop(scan, "deadline")
    /\ scan_unchanged

\* The consumer abandons the iteration: the generator is closed at its yield
\* (GeneratorExit), or the task waiting for the next device is cancelled.
\* Neither is a TimeoutError, so the finally clause is what runs.
Abandon ==
    /\ scan.pc \in {"yielded", "waiting"}
    /\ scan' = scanner_stop(scan, "abandoned")
    /\ scan_unchanged

\* scanner.stop() returns: the iteration is over.
ScannerStopDone ==
    /\ scan.pc = "stopping"
    /\ scan' = [scan EXCEPT !.pc = "ended"]
    /\ scan_unchanged

NextDiscover ==
    \/ Discover
    \/ \E ok \in BOOLEAN : ScannerStartDone(ok)
    \/ \E d \in Detections : Detect(d)
    \/ QueueGet
    \/ \E left \in BOOLEAN : AskNext(left)
    \/ Deadline
    \/ Abandon
    \/ ScannerStopDone

SpecDiscover == Init /\ [][NextDiscover]_vars

\* The devices of the detections that satisfy is_casper_glow and whose address
\* no earlier such detection had, in detection order.
FirstMatches(detected) ==
    LET match(i) == is_casper_glow(detected[i].device, detected[i].adv)
        first == {i \in 1..Len(detected) :
                     /\ match(i)
                     /\ \A j \in 1..(i - 1) :
                            match(j) =>
                                detected[j].device.address
                                    # detected[i].device.address}
        nth(n) == CHOOSE i \in first :
                      Cardinality({j \in first : j <= i}) = n
    IN  [n \in 1..Cardinality(first) |-> detected[nth(n)].device]

=============================================================================
